---- MODULE Spec2Model ----
(***************************************************************************)
(* Model of cluster-api-provider-kubevirt: the machine lifecycle manager   *)
(* (Create / Update / Delete / Exists, pkg/kubevirt/kubevirt.go) running   *)
(* against an infra-cluster store of VMs, VM instances and ignition        *)
(* secrets, and the providerID node reconciler.                            *)
(***************************************************************************)
EXTENDS Integers, Sequences, FiniteSets, TLC

VARIABLES
    vms,        \* infra cluster: VM key -> VirtualMachine (NoVM when absent)
    vmis,       \* infra cluster: set of VM keys that have a running instance
    secrets,    \* infra cluster: secret key -> secret data (NoDoc when absent)
    machines,   \* tenant cluster: machine name -> [spec, providerStatus, conditions]
    last,       \* outcome of the most recent manager call
    prev,       \* outcome of the manager call before it
    nodes,      \* tenant cluster: node name -> [exists, providerID]
    config,     \* tenant cluster: the cloud-provider-config config map
    instances,  \* infra cluster: keys of the VM instances the node reconciler sees
    lastReconcile,  \* outcome of the most recent Reconcile call
    injection,  \* the most recent addHostnameToUserData call and its result
    conditions, \* a machine's provider condition list
    now,        \* the clock metav1.Now() reads
    lastSet,    \* the most recent setKubevirtMachineProviderCondition call
    passes,     \* two machines reconciled concurrently and the infra objects each targets
    derivation  \* a machine scope's machine and the VMs derived from it so far

vmVars == <<vms, vmis, secrets, machines, last, prev>>
nodeVars == <<nodes, config, instances, lastReconcile>>
helperVars == <<injection, conditions, now, lastSet, passes, derivation>>
vars == <<vms, vmis, secrets, machines, last, prev, nodes, config, instances, lastReconcile,
          injection, conditions, now, lastSet, passes, derivation>>

----------------------------------------------------------------------------
(* Bounds *)

MaxRV == 2          \* largest resourceVersion the infra cluster hands out

(* Program constants *)

requeueAfterSeconds == 20
requeueAfterFatalSeconds == 180
gracePeriod == 10
hostnameFileMode == 420

----------------------------------------------------------------------------
(* Universe *)

Machines == {"m1"}
InfraNamespace == "infra"
Namespaces == {InfraNamespace, "default"}
VMKeys == Namespaces \X Machines
Specs == {"small", "large"}     \* provider specs a machine may carry

----------------------------------------------------------------------------
(* Errors.  msg is the error text as a sequence of fragments, requeue the   *)
(* RequeueAfter delay in seconds (0 when the error carries none).          *)

NoErr == [type |-> "nil", msg |-> <<>>, requeue |-> 0]
NotFoundErr == [type |-> "NotFound", msg |-> <<"not found">>, requeue |-> 0]
AlreadyExistsErr == [type |-> "AlreadyExists", msg |-> <<"already exists">>, requeue |-> 0]
TransientErr == [type |-> "Transient", msg |-> <<"infra call failed">>, requeue |-> 0]
InvalidMachineErr == [type |-> "InvalidMachineConfiguration", msg |-> <<"invalid machine">>, requeue |-> 0]
SyncErr == [type |-> "SyncFailed", msg |-> <<"failed to patch machine">>, requeue |-> 0]

\* fmt.Errorf("<prefix>: %w", err)
Wrapf(prefix, err) == [type |-> "Wrapped", msg |-> <<prefix>> \o err.msg, requeue |-> 0]

\* &machinecontroller.RequeueAfterError{RequeueAfter: secs * time.Second}
RequeueAfterError(secs) == [type |-> "RequeueAfter", msg |-> <<"requeue">>, requeue |-> secs]

IsNotFound_Never(err) == FALSE

IsNotFound(err) == err.type = "NotFound"

----------------------------------------------------------------------------
(* Infra cluster objects *)

NoVM == [name |-> "", namespace |-> "", spec |-> "", resourceVersion |-> 0,
         created |-> FALSE, ready |-> FALSE]

\* Boot-config documents.  A document is the outcome of parsing the bytes:
\*   valid    the bytes are well-formed JSON
\*   top      "object", "null" or "other" (array, string, number)
\*   keys     the top-level fields other than "storage"
\*   storage  "absent", "object" or "other"
\*   skeys    the fields of the storage object other than "files"
\*   files    "absent", "list" or "other"
\*   fileList the entries of storage.files
Doc(valid, top, keys, storage, skeys, files, fileList) ==
    [valid |-> valid, top |-> top, keys |-> keys, storage |-> storage,
     skeys |-> skeys, files |-> files, fileList |-> fileList]

NoKeys == [k \in {} |-> ""]
NoDoc == Doc(FALSE, "none", NoKeys, "absent", NoKeys, "absent", <<>>)
MalformedDoc == Doc(FALSE, "other", NoKeys, "absent", NoKeys, "absent", <<>>)
NullDoc == Doc(TRUE, "null", NoKeys, "absent", NoKeys, "absent", <<>>)
ArrayDoc == Doc(TRUE, "other", NoKeys, "absent", NoKeys, "absent", <<>>)
\* userDataValue of the tests: {"key1":"value1"}
userDataValue == Doc(TRUE, "object", [k \in {"key1"} |-> "value1"], "absent", NoKeys, "absent", <<>>)

FileEntry(filesystem, path, mode, source) ==
    [filesystem |-> filesystem, path |-> path, mode |-> mode, source |-> source]

NoFiles == <<>>

\* JSON values are written as their text; these are the number texts in use.
Numbers == {"420", "9007199254740993"}

\* A JSON number decoded into an interface{} is a float64 (53 bits of
\* mantissa) and is written back from it: strconv.ParseFloat, then FormatFloat.
float64RoundTrip(number) ==
    IF number = "9007199254740993" THEN "9007199254740992" ELSE number

\* json.Unmarshal into interface{} followed by json.Marshal, for one value.
decodeEncode(value) == IF value \in Numbers THEN float64RoundTrip(value) ELSE value

\* The same for the fields of one JSON object.
decodeEncodeFields(fields) == [k \in DOMAIN fields |-> decodeEncode(fields[k])]

----------------------------------------------------------------------------
(* Machine scope (pkg/machinescope): one reconciliation's view of a machine *)

GetMachineName(m) == m

GetInfraNamespace(m) == InfraNamespace

SecretName(m) == m \o "-ignition"

SecretKeys == Namespaces \X {SecretName(m) : m \in Machines}

\* The desired VM derived from the machine; fails on an invalid provider spec.
CreateVirtualMachineFromMachine(m, in) ==
    IF in.derive = "fail"
    THEN [vm |-> NoVM, err |-> InvalidMachineErr]
    ELSE [vm |-> [name |-> GetMachineName(m), namespace |-> GetInfraNamespace(m),
                  spec |-> machines[m].spec, resourceVersion |-> 0,
                  created |-> FALSE, ready |-> FALSE],
          err |-> NoErr]

CreateIgnitionSecretFromMachine(m, fullUserData) ==
    [name |-> SecretName(m), namespace |-> GetInfraNamespace(m), data |-> fullUserData]

\* TRUE while the machine is within the eventual-consistency grace window.
UpdateAllowed(in) == in.updateAllowed

\* Folds the VM and the instance into the machine's provider status.
SyncMachine(m, vm, vmi, in) ==
    IF in.sync = "fail"
    THEN [err |-> SyncErr, machines |-> machines]
    ELSE [err |-> NoErr,
          machines |-> [machines EXCEPT ![m].providerStatus =
                            IF vmi = "instance" THEN "vm+vmi" ELSE "vm"]]

----------------------------------------------------------------------------
(* Infra cluster client (pkg/clients/infracluster).  in holds the responses *)
(* of the infra cluster to the calls of one pass.                           *)

Key(namespace, name) == <<namespace, name>>

\* obj: the resourceVersion and status of the object an update read and of
\* the object it submitted
Call(call, key, res, arg) ==
    [call |-> call, namespace |-> key[1], name |-> key[2], res |-> res, arg |-> arg,
     obj |-> [resourceVersion |-> 0, created |-> FALSE, ready |-> FALSE]]

GetVirtualMachine(store, key, in) ==
    IF in.getVM = "fault" THEN [vm |-> NoVM, err |-> TransientErr]
    ELSE IF store[key] = NoVM
         THEN IF in.absent = "nil" THEN [vm |-> NoVM, err |-> NoErr]
                                   ELSE [vm |-> NoVM, err |-> NotFoundErr]
         ELSE [vm |-> store[key], err |-> NoErr]

CreateVirtualMachine(store, namespace, vm, in) ==
    LET key == Key(namespace, vm.name) IN
    IF in.createVM = "fault" THEN [vm |-> NoVM, err |-> TransientErr, store |-> store]
    ELSE IF store[key] # NoVM THEN [vm |-> NoVM, err |-> AlreadyExistsErr, store |-> store]
    ELSE LET created == [vm EXCEPT !.resourceVersion = 1] IN
         [vm |-> created, err |-> NoErr, store |-> [store EXCEPT ![key] = created]]

\* An update whose payload equals the stored object leaves the resourceVersion
\* alone; an update carrying a stale resourceVersion is rejected.
UpdateVirtualMachine(store, namespace, vm, in) ==
    LET key == Key(namespace, vm.name) IN
    IF in.updateVM = "fault" THEN [vm |-> NoVM, err |-> TransientErr, store |-> store]
    ELSE IF store[key] = NoVM THEN [vm |-> NoVM, err |-> NotFoundErr, store |-> store]
    ELSE IF store[key].resourceVersion # vm.resourceVersion
         THEN [vm |-> NoVM, err |-> [type |-> "Conflict", msg |-> <<"object has been modified">>, requeue |-> 0],
               store |-> store]
    ELSE IF store[key] = vm THEN [vm |-> vm, err |-> NoErr, store |-> store]
    ELSE LET updated == [vm EXCEPT !.resourceVersion = vm.resourceVersion + 1] IN
         [vm |-> updated, err |-> NoErr, store |-> [store EXCEPT ![key] = updated]]

DeleteVirtualMachine(store, key, in) ==
    IF in.deleteVM = "fault" THEN [err |-> TransientErr, store |-> store]
    ELSE IF store[key] = NoVM THEN [err |-> NotFoundErr, store |-> store]
    ELSE [err |-> NoErr, store |-> [store EXCEPT ![key] = NoVM]]

\* ptr is what the returned pointer refers to: the instance, nothing (nil), or
\* an empty object returned together with the error.
GetVirtualMachineInstance(key, in) ==
    IF in.getVMI = "fault" THEN [ptr |-> in.vmiOnErr, err |-> TransientErr]
    ELSE IF key \notin vmis THEN [ptr |-> in.vmiOnErr, err |-> NotFoundErr]
    ELSE [ptr |-> "instance", err |-> NoErr]

CreateSecret(store, namespace, secret, in) ==
    LET key == Key(namespace, secret.name) IN
    IF in.createSecret = "fault" THEN [err |-> TransientErr, store |-> store]
    ELSE IF store[key] # NoDoc THEN [err |-> AlreadyExistsErr, store |-> store]
    ELSE [err |-> NoErr, store |-> [store EXCEPT ![key] = secret.data]]

----------------------------------------------------------------------------
(* Lifecycle manager (pkg/kubevirt/kubevirt.go) *)

\* How a client response reads in the call log.
Res(err, present) ==
    IF err # NoErr THEN err.type ELSE IF present THEN "ok" ELSE "nil"

\* The outcome of one manager call: the returned error (or a panic), the
\* returned boolean (wasUpdated / exists), the calls issued, and the stores
\* and machines as the call leaves them.
Outcome(err, panic, bool, calls, vms_, secrets_, machines_) ==
    [err |-> err, panic |-> panic, bool |-> bool, calls |-> calls,
     vms |-> vms_, secrets |-> secrets_, machines |-> machines_]

conditionFailed ==
    [type |-> "Failure", status |-> "True", reason |-> "MachineCreationFailed",
     message |-> <<>>, lastProbeTime |-> 0, lastTransitionTime |-> 0]

\* json.Unmarshal(src, &dataMap): dataMap stays nil unless the bytes hold a
\* JSON object; the error is dropped by the caller.
Unmarshal(src) ==
    [nil |-> ~(src.valid /\ src.top = "object"),
     err |-> ~src.valid \/ src.top = "other"]

\* Returns [panic, err, data].  Writing into the nil map panics, and so do the
\* two type assertions when "storage" is not an object or "files" is not a
\* []map[string]interface{} (a list decoded from JSON is a []interface{}).
addHostnameToUserData(src, hostname) ==
    LET dataMap == Unmarshal(src)
        hasStorage == ~dataMap.nil /\ src.storage # "absent"
        storage == IF hasStorage THEN src.storage ELSE "object"
        skeys == IF hasStorage THEN src.skeys ELSE NoKeys
        hasFiles == hasStorage /\ src.files # "absent"
        newFile == FileEntry("root", "/etc/hostname", hostnameFileMode, "data:," \o hostname)
        panics == \/ (~hasStorage /\ dataMap.nil)
                  \/ storage # "object"
                  \/ hasFiles
    IN  IF panics
        THEN [panic |-> TRUE, err |-> NoErr, data |-> NoDoc]
        ELSE [panic |-> FALSE, err |-> NoErr,
              data |-> Doc(TRUE, "object", decodeEncodeFields(src.keys), "object",
                           decodeEncodeFields(skeys), "list", Append(NoFiles, newFile))]

createInfraClusterVM(virtualMachine, in) ==
    CreateVirtualMachine(vms, virtualMachine.namespace, virtualMachine, in)

createInfraClusterSecret(secret, in) ==
    CreateSecret(secrets, secret.namespace, secret, in)

getInraClusterVM(vmName, vmNamespace, in) ==
    GetVirtualMachine(vms, Key(vmNamespace, vmName), in)

getInraClusterVMI(vmName, vmNamespace, in) ==
    GetVirtualMachineInstance(Key(vmNamespace, vmName), in)

deleteInraClusterVM_OtherNamespace(vmName, vmNamespace, in) ==
    DeleteVirtualMachine(vms, Key("default", vmName), in)

\* deletes with a grace period of gracePeriod seconds
deleteInraClusterVM(vmName, vmNamespace, in) ==
    DeleteVirtualMachine(vms, Key(vmNamespace, vmName), in)

updateInraClusterVM(store, updatedVM, in) ==
    UpdateVirtualMachine(store, updatedVM.namespace, updatedVM, in)

\* Returns [panic, err, machines, calls].  A failed instance fetch is only
\* logged; the returned pointer is dereferenced whatever the error.
syncMachine_SwallowError(vm, m, in) ==
    LET key == Key(vm.namespace, vm.name)
        got == getInraClusterVMI(vm.name, vm.namespace, in)
        c1 == Call("GetVirtualMachineInstance", key, Res(got.err, TRUE), 0)
    IN  IF got.ptr = "nil"
        THEN [panic |-> TRUE, err |-> NoErr, machines |-> machines, calls |-> <<c1>>]
        ELSE LET s == SyncMachine(m, vm, got.ptr, in)
                 c2 == Call("SyncMachine", key, Res(s.err, TRUE), 0)
             IN  [panic |-> FALSE, err |-> NoErr, machines |-> s.machines,
                  calls |-> <<c1, c2>>]

syncMachine(vm, m, in) ==
    LET key == Key(vm.namespace, vm.name)
        got == getInraClusterVMI(vm.name, vm.namespace, in)
        c1 == Call("GetVirtualMachineInstance", key, Res(got.err, TRUE), 0)
    IN  IF got.ptr = "nil"
        THEN [panic |-> TRUE, err |-> NoErr, machines |-> machines, calls |-> <<c1>>]
        ELSE LET s == SyncMachine(m, vm, got.ptr, in)
                 c2 == Call("SyncMachine", key, Res(s.err, TRUE), 0)
             IN  [panic |-> FALSE, err |-> s.err, machines |-> s.machines,
                  calls |-> <<c1, c2>>]

Create_RollbackSecret(m, userData, in) ==
    LET ud == addHostnameToUserData(userData, GetMachineName(m)) IN
    IF ud.panic THEN Outcome(NoErr, TRUE, FALSE, <<>>, vms, secrets, machines)
    ELSE IF ud.err # NoErr THEN Outcome(ud.err, FALSE, FALSE, <<>>, vms, secrets, machines)
    ELSE
    LET secretFromMachine == CreateIgnitionSecretFromMachine(m, ud.data)
        sec == createInfraClusterSecret(secretFromMachine, in)
        c1 == Call("CreateSecret", Key(secretFromMachine.namespace, secretFromMachine.name),
                   Res(sec.err, TRUE), 0)
    IN
    IF sec.err # NoErr
    THEN Outcome(Wrapf("failed to create ignition secret", sec.err), FALSE, FALSE,
                 <<c1>>, vms, sec.store, machines)
    ELSE
    LET d == CreateVirtualMachineFromMachine(m, in) IN
    IF d.err # NoErr THEN Outcome(d.err, FALSE, FALSE, <<c1>>, vms, sec.store, machines)
    ELSE
    LET cr == createInfraClusterVM(d.vm, in)
        c2 == Call("CreateVirtualMachine", Key(d.vm.namespace, d.vm.name),
                   Res(cr.err, TRUE), cr.vm.resourceVersion)
    IN
    IF cr.err # NoErr
    THEN Outcome(Wrapf("failed to create virtual machine", cr.err), FALSE, FALSE,
                 <<c1, c2, Call("DeleteSecret", Key(secretFromMachine.namespace,
                                                    secretFromMachine.name), "ok", 0)>>,
                 cr.store, secrets, machines)
    ELSE
    LET sy == syncMachine(cr.vm, m, in) IN
    Outcome(sy.err, sy.panic, FALSE, <<c1, c2>> \o sy.calls, cr.store, sec.store, sy.machines)

Create(m, userData, in) ==
    LET ud == addHostnameToUserData(userData, GetMachineName(m)) IN
    IF ud.panic THEN Outcome(NoErr, TRUE, FALSE, <<>>, vms, secrets, machines)
    ELSE IF ud.err # NoErr THEN Outcome(ud.err, FALSE, FALSE, <<>>, vms, secrets, machines)
    ELSE
    LET secretFromMachine == CreateIgnitionSecretFromMachine(m, ud.data)
        sec == createInfraClusterSecret(secretFromMachine, in)
        c1 == Call("CreateSecret", Key(secretFromMachine.namespace, secretFromMachine.name),
                   Res(sec.err, TRUE), 0)
    IN
    \* the Failure condition built here is a local value: it is given the
    \* message and then dropped, the machine's conditions are not touched
    IF sec.err # NoErr
    THEN Outcome(Wrapf("failed to create ignition secret", sec.err), FALSE, FALSE,
                 <<c1>>, vms, sec.store, machines)
    ELSE
    LET d == CreateVirtualMachineFromMachine(m, in) IN
    IF d.err # NoErr THEN Outcome(d.err, FALSE, FALSE, <<c1>>, vms, sec.store, machines)
    ELSE
    LET cr == createInfraClusterVM(d.vm, in)
        c2 == Call("CreateVirtualMachine", Key(d.vm.namespace, d.vm.name),
                   Res(cr.err, TRUE), cr.vm.resourceVersion)
    IN
    IF cr.err # NoErr
    THEN Outcome(Wrapf("failed to create virtual machine", cr.err), FALSE, FALSE,
                 <<c1, c2>>, cr.store, sec.store, machines)
    ELSE
    LET sy == syncMachine(cr.vm, m, in) IN
    Outcome(sy.err, sy.panic, FALSE, <<c1, c2>> \o sy.calls, cr.store, sec.store, sy.machines)

Delete_SwallowDeleteError(m, in) ==
    LET d == CreateVirtualMachineFromMachine(m, in) IN
    IF d.err # NoErr THEN Outcome(d.err, FALSE, FALSE, <<>>, vms, secrets, machines)
    ELSE
    LET key == Key(d.vm.namespace, d.vm.name)
        existing == getInraClusterVM(d.vm.name, d.vm.namespace, in)
        c1 == Call("GetVirtualMachine", key, Res(existing.err, existing.vm # NoVM),
                   existing.vm.resourceVersion)
    IN
    IF existing.err # NoErr
    THEN IF IsNotFound(existing.err)
         THEN Outcome(NoErr, FALSE, FALSE, <<c1>>, vms, secrets, machines)
         ELSE Outcome(existing.err, FALSE, FALSE, <<c1>>, vms, secrets, machines)
    ELSE IF existing.vm = NoVM
    THEN Outcome(NoErr, FALSE, FALSE, <<c1>>, vms, secrets, machines)
    ELSE
    LET dkey == Key(existing.vm.namespace, existing.vm.name)
        del == deleteInraClusterVM(existing.vm.name, existing.vm.namespace, in)
        c2 == Call("DeleteVirtualMachine", dkey, Res(del.err, TRUE), gracePeriod)
    IN
    Outcome(NoErr, FALSE, FALSE, <<c1, c2>>, del.store, secrets, machines)

Delete_SecretToo(m, in) ==
    LET d == CreateVirtualMachineFromMachine(m, in) IN
    IF d.err # NoErr THEN Outcome(d.err, FALSE, FALSE, <<>>, vms, secrets, machines)
    ELSE
    LET key == Key(d.vm.namespace, d.vm.name)
        existing == getInraClusterVM(d.vm.name, d.vm.namespace, in)
        c1 == Call("GetVirtualMachine", key, Res(existing.err, existing.vm # NoVM),
                   existing.vm.resourceVersion)
    IN
    IF existing.err # NoErr
    THEN IF IsNotFound(existing.err)
         THEN Outcome(NoErr, FALSE, FALSE, <<c1>>, vms, secrets, machines)
         ELSE Outcome(existing.err, FALSE, FALSE, <<c1>>, vms, secrets, machines)
    ELSE IF existing.vm = NoVM
    THEN Outcome(NoErr, FALSE, FALSE, <<c1>>, vms, secrets, machines)
    ELSE
    LET dkey == Key(existing.vm.namespace, existing.vm.name)
        del == deleteInraClusterVM(existing.vm.name, existing.vm.namespace, in)
        c2 == Call("DeleteVirtualMachine", dkey, Res(del.err, TRUE), gracePeriod)
    IN
    IF del.err # NoErr
    THEN Outcome(Wrapf("failed to delete VM", del.err), FALSE, FALSE, <<c1, c2>>,
                 del.store, secrets, machines)
    ELSE Outcome(NoErr, FALSE, FALSE,
                 <<c1, c2, Call("DeleteSecret", Key(dkey[1], SecretName(m)), "ok", 0)>>,
                 del.store, [secrets EXCEPT ![Key(dkey[1], SecretName(m))] = NoDoc], machines)

Delete(m, in) ==
    LET d == CreateVirtualMachineFromMachine(m, in) IN
    IF d.err # NoErr THEN Outcome(d.err, FALSE, FALSE, <<>>, vms, secrets, machines)
    ELSE
    LET key == Key(d.vm.namespace, d.vm.name)
        existing == getInraClusterVM(d.vm.name, d.vm.namespace, in)
        c1 == Call("GetVirtualMachine", key, Res(existing.err, existing.vm # NoVM),
                   existing.vm.resourceVersion)
    IN
    IF existing.err # NoErr
    THEN IF IsNotFound(existing.err)
         THEN Outcome(NoErr, FALSE, FALSE, <<c1>>, vms, secrets, machines)
         ELSE Outcome(existing.err, FALSE, FALSE, <<c1>>, vms, secrets, machines)
    ELSE IF existing.vm = NoVM
    THEN Outcome(NoErr, FALSE, FALSE, <<c1>>, vms, secrets, machines)
    ELSE
    LET dkey == Key(existing.vm.namespace, existing.vm.name)
        del == deleteInraClusterVM(existing.vm.name, existing.vm.namespace, in)
        c2 == Call("DeleteVirtualMachine", dkey, Res(del.err, TRUE), gracePeriod)
    IN
    IF del.err # NoErr
    THEN Outcome(Wrapf("failed to delete VM", del.err), FALSE, FALSE, <<c1, c2>>,
                 del.store, secrets, machines)
    ELSE Outcome(NoErr, FALSE, FALSE, <<c1, c2>>, del.store, secrets, machines)

\* The infra cluster's own controller writing the VM's status.
Touch(vm) ==
    [vm EXCEPT !.resourceVersion = @ + 1, !.created = TRUE, !.ready = ~@]

wasUpdated_Always(previousResourceVersion, currentResourceVersion) == TRUE

wasUpdated(previousResourceVersion, currentResourceVersion) ==
    previousResourceVersion # currentResourceVersion

updateVM_DerivedVersion(m, virtualMachineFromMachine, in) ==
    LET key == Key(virtualMachineFromMachine.namespace, virtualMachineFromMachine.name)
        existing == getInraClusterVM(virtualMachineFromMachine.name,
                                     virtualMachineFromMachine.namespace, in)
        versionAndStatus(vm) ==
            [resourceVersion |-> vm.resourceVersion, created |-> vm.created, ready |-> vm.ready]
        c1 == [Call("GetVirtualMachine", key, Res(existing.err, existing.vm # NoVM),
                    existing.vm.resourceVersion)
                  EXCEPT !.obj = versionAndStatus(existing.vm)]
    IN
    IF existing.err # NoErr
    THEN [wasUpdated |-> FALSE, vm |-> NoVM, err |-> existing.err, calls |-> <<c1>>, vms |-> vms]
    ELSE IF existing.vm = NoVM
    THEN IF UpdateAllowed(in)
         THEN [wasUpdated |-> FALSE, vm |-> NoVM, err |-> RequeueAfterError(requeueAfterSeconds),
               calls |-> <<c1>>, vms |-> vms]
         ELSE [wasUpdated |-> FALSE, vm |-> NoVM, err |-> RequeueAfterError(requeueAfterFatalSeconds),
               calls |-> <<c1>>, vms |-> vms]
    ELSE
    LET previousResourceVersion == existing.vm.resourceVersion
        payload == [virtualMachineFromMachine EXCEPT
                        !.created = existing.vm.created,
                        !.ready = existing.vm.ready]
        \* the store as the write finds it
        store == IF in.raced THEN [vms EXCEPT ![key] = Touch(@)] ELSE vms
        upd == updateInraClusterVM(store, payload, in)
        c2 == [Call("UpdateVirtualMachine", key, Res(upd.err, TRUE), upd.vm.resourceVersion)
                  EXCEPT !.obj = versionAndStatus(payload)]
    IN
    IF upd.err # NoErr
    THEN [wasUpdated |-> FALSE, vm |-> NoVM, err |-> Wrapf("failed to update VM", upd.err),
          calls |-> <<c1, c2>>, vms |-> upd.store]
    ELSE LET currentResourceVersion == upd.vm.resourceVersion IN
         [wasUpdated |-> wasUpdated(previousResourceVersion, currentResourceVersion),
          vm |-> upd.vm,
          err |-> NoErr, calls |-> <<c1, c2>>, vms |-> upd.store]

\* Returns [wasUpdated, vm, err, calls, vms].
updateVM(m, virtualMachineFromMachine, in) ==
    LET key == Key(virtualMachineFromMachine.namespace, virtualMachineFromMachine.name)
        existing == getInraClusterVM(virtualMachineFromMachine.name,
                                     virtualMachineFromMachine.namespace, in)
        versionAndStatus(vm) ==
            [resourceVersion |-> vm.resourceVersion, created |-> vm.created, ready |-> vm.ready]
        c1 == [Call("GetVirtualMachine", key, Res(existing.err, existing.vm # NoVM),
                    existing.vm.resourceVersion)
                  EXCEPT !.obj = versionAndStatus(existing.vm)]
    IN
    IF existing.err # NoErr
    THEN [wasUpdated |-> FALSE, vm |-> NoVM, err |-> existing.err, calls |-> <<c1>>, vms |-> vms]
    ELSE IF existing.vm = NoVM
    THEN IF UpdateAllowed(in)
         THEN [wasUpdated |-> FALSE, vm |-> NoVM, err |-> RequeueAfterError(requeueAfterSeconds),
               calls |-> <<c1>>, vms |-> vms]
         ELSE [wasUpdated |-> FALSE, vm |-> NoVM, err |-> RequeueAfterError(requeueAfterFatalSeconds),
               calls |-> <<c1>>, vms |-> vms]
    ELSE
    LET previousResourceVersion == existing.vm.resourceVersion
        payload == [virtualMachineFromMachine EXCEPT
                        !.resourceVersion = previousResourceVersion,
                        !.created = existing.vm.created,
                        !.ready = existing.vm.ready]
        \* the store as the write finds it
        store == IF in.raced THEN [vms EXCEPT ![key] = Touch(@)] ELSE vms
        upd == updateInraClusterVM(store, payload, in)
        c2 == [Call("UpdateVirtualMachine", key, Res(upd.err, TRUE), upd.vm.resourceVersion)
                  EXCEPT !.obj = versionAndStatus(payload)]
    IN
    IF upd.err # NoErr
    THEN [wasUpdated |-> FALSE, vm |-> NoVM, err |-> Wrapf("failed to update VM", upd.err),
          calls |-> <<c1, c2>>, vms |-> upd.store]
    ELSE LET currentResourceVersion == upd.vm.resourceVersion IN
         [wasUpdated |-> wasUpdated(previousResourceVersion, currentResourceVersion),
          vm |-> upd.vm,
          err |-> NoErr, calls |-> <<c1, c2>>, vms |-> upd.store]

Update_SyncFirst(m, in) ==
    LET d == CreateVirtualMachineFromMachine(m, in) IN
    IF d.err # NoErr THEN Outcome(d.err, FALSE, FALSE, <<>>, vms, secrets, machines)
    ELSE
    LET sy == syncMachine(d.vm, m, in)
        u == updateVM(m, d.vm, in)
    IN
    IF sy.panic THEN Outcome(NoErr, TRUE, FALSE, sy.calls, vms, secrets, machines)
    ELSE IF sy.err # NoErr
    THEN Outcome(sy.err, FALSE, FALSE, sy.calls, vms, secrets, sy.machines)
    ELSE IF u.err # NoErr
    THEN Outcome(u.err, FALSE, FALSE, sy.calls \o u.calls, u.vms, secrets, sy.machines)
    ELSE Outcome(NoErr, FALSE, u.wasUpdated, sy.calls \o u.calls, u.vms, secrets, sy.machines)

Update_RequeueOnReadError(m, in) ==
    LET d == CreateVirtualMachineFromMachine(m, in) IN
    IF d.err # NoErr THEN Outcome(d.err, FALSE, FALSE, <<>>, vms, secrets, machines)
    ELSE
    LET u == updateVM(m, d.vm, in) IN
    IF u.err # NoErr
    THEN Outcome(IF Len(u.calls) = 1 THEN RequeueAfterError(requeueAfterSeconds) ELSE u.err,
                 FALSE, FALSE, u.calls, u.vms, secrets, machines)
    ELSE
    LET sy == syncMachine(u.vm, m, in) IN
    IF sy.panic THEN Outcome(NoErr, TRUE, FALSE, u.calls \o sy.calls, u.vms, secrets, machines)
    ELSE IF sy.err # NoErr
    THEN Outcome(sy.err, FALSE, FALSE, u.calls \o sy.calls, u.vms, secrets, sy.machines)
    ELSE Outcome(NoErr, FALSE, u.wasUpdated, u.calls \o sy.calls, u.vms, secrets, sy.machines)

Update_ChangeWithSyncError(m, in) ==
    LET d == CreateVirtualMachineFromMachine(m, in) IN
    IF d.err # NoErr THEN Outcome(d.err, FALSE, FALSE, <<>>, vms, secrets, machines)
    ELSE
    LET u == updateVM(m, d.vm, in) IN
    IF u.err # NoErr THEN Outcome(u.err, FALSE, FALSE, u.calls, u.vms, secrets, machines)
    ELSE
    LET sy == syncMachine(u.vm, m, in) IN
    IF sy.panic THEN Outcome(NoErr, TRUE, FALSE, u.calls \o sy.calls, u.vms, secrets, machines)
    ELSE Outcome(sy.err, FALSE, u.wasUpdated, u.calls \o sy.calls, u.vms, secrets, sy.machines)

Update_RecreatesVM(m, in) ==
    LET d == CreateVirtualMachineFromMachine(m, in) IN
    IF d.err # NoErr THEN Outcome(d.err, FALSE, FALSE, <<>>, vms, secrets, machines)
    ELSE
    LET u == updateVM(m, d.vm, in) IN
    IF u.err # NoErr
    THEN IF u.err.type = "RequeueAfter"
         THEN LET cr == createInfraClusterVM(d.vm, in) IN
              Outcome(u.err, FALSE, FALSE,
                      Append(u.calls, Call("CreateVirtualMachine", Key(d.vm.namespace, d.vm.name),
                                           Res(cr.err, TRUE), cr.vm.resourceVersion)),
                      cr.store, secrets, machines)
         ELSE Outcome(u.err, FALSE, FALSE, u.calls, u.vms, secrets, machines)
    ELSE
    LET sy == syncMachine(u.vm, m, in) IN
    IF sy.panic THEN Outcome(NoErr, TRUE, FALSE, u.calls \o sy.calls, u.vms, secrets, machines)
    ELSE IF sy.err # NoErr
    THEN Outcome(sy.err, FALSE, FALSE, u.calls \o sy.calls, u.vms, secrets, sy.machines)
    ELSE Outcome(NoErr, FALSE, u.wasUpdated, u.calls \o sy.calls, u.vms, secrets, sy.machines)

Update(m, in) ==
    LET d == CreateVirtualMachineFromMachine(m, in) IN
    IF d.err # NoErr THEN Outcome(d.err, FALSE, FALSE, <<>>, vms, secrets, machines)
    ELSE
    LET u == updateVM(m, d.vm, in) IN
    IF u.err # NoErr THEN Outcome(u.err, FALSE, FALSE, u.calls, u.vms, secrets, machines)
    ELSE
    LET sy == syncMachine(u.vm, m, in) IN
    IF sy.panic THEN Outcome(NoErr, TRUE, FALSE, u.calls \o sy.calls, u.vms, secrets, machines)
    ELSE IF sy.err # NoErr
    THEN Outcome(sy.err, FALSE, FALSE, u.calls \o sy.calls, u.vms, secrets, sy.machines)
    ELSE Outcome(NoErr, FALSE, u.wasUpdated, u.calls \o sy.calls, u.vms, secrets, sy.machines)

Exists_MachineNamespace(m, in) ==
    LET key == Key("default", GetMachineName(m))
        existing == getInraClusterVM(GetMachineName(m), "default", in)
        c1 == Call("GetVirtualMachine", key, Res(existing.err, existing.vm # NoVM),
                   existing.vm.resourceVersion)
    IN
    IF existing.err # NoErr
    THEN IF IsNotFound(existing.err)
         THEN Outcome(NoErr, FALSE, FALSE, <<c1>>, vms, secrets, machines)
         ELSE Outcome(existing.err, FALSE, FALSE, <<c1>>, vms, secrets, machines)
    ELSE IF existing.vm = NoVM
    THEN Outcome(NoErr, FALSE, FALSE, <<c1>>, vms, secrets, machines)
    ELSE Outcome(NoErr, FALSE, TRUE, <<c1>>, vms, secrets, machines)

Exists_ErrorsAsAbsent(m, in) ==
    LET key == Key(GetInfraNamespace(m), GetMachineName(m))
        existing == getInraClusterVM(GetMachineName(m), GetInfraNamespace(m), in)
        c1 == Call("GetVirtualMachine", key, Res(existing.err, existing.vm # NoVM),
                   existing.vm.resourceVersion)
    IN
    IF existing.err # NoErr \/ existing.vm = NoVM
    THEN Outcome(NoErr, FALSE, FALSE, <<c1>>, vms, secrets, machines)
    ELSE Outcome(NoErr, FALSE, TRUE, <<c1>>, vms, secrets, machines)

Exists_SyncsStatus(m, in) ==
    LET key == Key(GetInfraNamespace(m), GetMachineName(m))
        existing == getInraClusterVM(GetMachineName(m), GetInfraNamespace(m), in)
        c1 == Call("GetVirtualMachine", key, Res(existing.err, existing.vm # NoVM),
                   existing.vm.resourceVersion)
    IN
    IF existing.err # NoErr
    THEN IF IsNotFound(existing.err)
         THEN Outcome(NoErr, FALSE, FALSE, <<c1>>, vms, secrets, machines)
         ELSE Outcome(existing.err, FALSE, FALSE, <<c1>>, vms, secrets, machines)
    ELSE IF existing.vm = NoVM
    THEN Outcome(NoErr, FALSE, FALSE, <<c1>>, vms, secrets, machines)
    ELSE Outcome(NoErr, FALSE, TRUE, <<c1>>, vms, secrets,
                 [machines EXCEPT ![m].providerStatus = "vm"])

Exists(m, in) ==
    LET key == Key(GetInfraNamespace(m), GetMachineName(m))
        existing == getInraClusterVM(GetMachineName(m), GetInfraNamespace(m), in)
        c1 == Call("GetVirtualMachine", key, Res(existing.err, existing.vm # NoVM),
                   existing.vm.resourceVersion)
    IN
    IF existing.err # NoErr
    THEN IF IsNotFound(existing.err)
         THEN Outcome(NoErr, FALSE, FALSE, <<c1>>, vms, secrets, machines)
         ELSE Outcome(existing.err, FALSE, FALSE, <<c1>>, vms, secrets, machines)
    ELSE IF existing.vm = NoVM
    THEN Outcome(NoErr, FALSE, FALSE, <<c1>>, vms, secrets, machines)
    ELSE Outcome(NoErr, FALSE, TRUE, <<c1>>, vms, secrets, machines)

----------------------------------------------------------------------------
(* Responses of the infra cluster and of the machine scope to one pass.     *)
(* A response that the pass cannot reach is left at its default.            *)

DefaultIn ==
    [derive |-> "ok", getVM |-> "serve", absent |-> "NotFound", createSecret |-> "serve",
     createVM |-> "serve", updateVM |-> "serve", deleteVM |-> "serve", getVMI |-> "serve",
     vmiOnErr |-> "nil", sync |-> "ok", updateAllowed |-> FALSE, raced |-> FALSE]

SyncInputs(base) ==
    {[base EXCEPT !.getVMI = g, !.vmiOnErr = p, !.sync = s] :
        g \in {"serve", "fault"}, p \in {"nil", "empty"}, s \in {"ok", "fail"}}

AbsentInputs == {[DefaultIn EXCEPT !.absent = a] : a \in {"NotFound", "nil"}}

CreateInputs ==
    {[DefaultIn EXCEPT !.createSecret = "fault"], [DefaultIn EXCEPT !.derive = "fail"],
     [DefaultIn EXCEPT !.createVM = "fault"]} \cup SyncInputs(DefaultIn)

UpdateInputs ==
    {[DefaultIn EXCEPT !.derive = "fail"], [DefaultIn EXCEPT !.getVM = "fault"]}
    \cup {[a EXCEPT !.updateAllowed = TRUE] : a \in AbsentInputs}
    \cup {[DefaultIn EXCEPT !.updateVM = "fault"], [DefaultIn EXCEPT !.raced = TRUE]}
    \cup AbsentInputs \cup SyncInputs(DefaultIn)

DeleteInputs ==
    {[DefaultIn EXCEPT !.derive = "fail"], [DefaultIn EXCEPT !.getVM = "fault"],
     [DefaultIn EXCEPT !.deleteVM = "fault"]} \cup AbsentInputs

ExistsInputs == {[DefaultIn EXCEPT !.getVM = "fault"]} \cup AbsentInputs

\* {"key1":"value1","storage":{"files":[{...}]}}
userDataWithFiles ==
    Doc(TRUE, "object", [k \in {"key1"} |-> "value1"], "object", NoKeys, "list",
        <<FileEntry("root", "/etc/motd", hostnameFileMode, "data:,hello")>>)

UserDatas == {MalformedDoc, userDataValue, userDataWithFiles}

\* Create's inputs: the boot-config bytes and the responses.
CreateCases ==
    {<<userData, in>> \in UserDatas \X CreateInputs :
        addHostnameToUserData(userData, "").panic => in = DefaultIn}

----------------------------------------------------------------------------
(* Tenant cluster nodes and the shared configuration *)

NodeNames == {"m1", "m2"}

NoNode == [exists |-> FALSE, providerID |-> ""]

\* The cloud-provider-config config map: readable or not, holding the
\* "namespace" key or not, and the infra namespace it names.
ConfigMap(readable, hasKey, namespace) ==
    [readable |-> readable, hasKey |-> hasKey, namespace |-> namespace]

ConfigMaps ==
    {ConfigMap(FALSE, FALSE, ""), ConfigMap(TRUE, FALSE, "")}
    \cup {ConfigMap(TRUE, TRUE, ns) : ns \in Namespaces}

InstanceKeys == Namespaces \X NodeNames

NoReconcile ==
    [version |-> "none", node |-> "", preID |-> "", postID |-> "", namespace |-> "",
     id |-> "", sent |-> "", err |-> NoErr, requeue |-> FALSE, requeueAfter |-> 0,
     calls |-> <<>>]

MachineClusterIDLabel == "machine.openshift.io/cluster-api-cluster"

\* A label map is a set of <<key, value>> pairs, one per key.  Its read gives
\* "" for a missing key, its write replaces or adds the key's pair.
Label(labels, key) ==
    IF \E p \in labels : p[1] = key
    THEN (CHOOSE p \in labels : p[1] = key)[2]
    ELSE ""

SetLabel(labels, key, value) == {p \in labels : p[1] # key} \cup {<<key, value>>}

\* A machine of the tenant cluster: its identity (namespace, name), its
\* labels, the cluster-ID label (machinev1.MachineClusterIDLabel) among them,
\* and its provider spec.
TenantMachine(namespace, name, clusterID) ==
    [namespace |-> namespace, name |-> name,
     labels |-> {<<MachineClusterIDLabel, clusterID>>},
     sourcePvcName |-> "SourceTestPvcName"]

\* No two passes observed yet.
NoPasses ==
    [called |-> FALSE, a |-> TenantMachine("", "", ""), b |-> TenantMachine("", "", ""),
     opA |-> "", opB |-> "", targetsA |-> {}, targetsB |-> {}]

\* A machine scope nothing was derived from.
NoDerivation ==
    [machine |-> TenantMachine("", "", ""), originMachineCopy |-> TenantMachine("", "", ""),
     derived |-> <<>>]

\* No addHostnameToUserData call yet.
NoInjection ==
    [called |-> FALSE, src |-> NoDoc, hostname |-> "", panic |-> FALSE, err |-> NoErr,
     data |-> NoDoc]

\* A provider condition; the times are clock readings, 0 the zero time.
Condition(type, status, reason, message, lastProbeTime, lastTransitionTime) ==
    [type |-> type, status |-> status, reason |-> reason, message |-> message,
     lastProbeTime |-> lastProbeTime, lastTransitionTime |-> lastTransitionTime]

\* No setKubevirtMachineProviderCondition call yet.
NoSet ==
    [called |-> FALSE, condition |-> Condition("", "", "", "", 0, 0), before |-> <<>>, at |-> 0]

----------------------------------------------------------------------------
(* State machine of the machine lifecycle *)

NoCall ==
    [op |-> "none", m |-> "", userData |-> NoDoc, had |-> FALSE, allowed |-> FALSE,
     raced |-> FALSE, err |-> NoErr, panic |-> FALSE, bool |-> FALSE, calls |-> <<>>]

\* The record of a manager call: the operation and its inputs (had: the
\* machine's VM existed when the call started, allowed: the grace window was
\* open, raced: the VM was written out of band between the call's read and
\* its write), and what it returned and issued.
Record(op, m, userData, in, out) ==
    [op |-> op, m |-> m, userData |-> userData,
     had |-> vms[Key(GetInfraNamespace(m), GetMachineName(m))] # NoVM,
     allowed |-> in.updateAllowed, raced |-> in.raced,
     err |-> out.err, panic |-> out.panic, bool |-> out.bool, calls |-> out.calls]

\* What is kept of a call once another call has followed it.
Brief(rec) ==
    [rec EXCEPT !.userData = NoDoc, !.allowed = FALSE, !.raced = FALSE, !.bool = FALSE]

\* Nothing exists yet in the infra cluster.
StartVM ==
    /\ vms = [k \in VMKeys |-> NoVM]
    /\ vmis = {}
    /\ secrets = [k \in SecretKeys |-> NoDoc]
    /\ last = NoCall
    /\ prev = NoCall

\* No node has registered yet.
StartNode ==
    /\ nodes = [n \in NodeNames |-> NoNode]
    /\ instances = {}
    /\ lastReconcile = NoReconcile

\* No helper has been called yet.
StartHelpers ==
    /\ injection = NoInjection
    /\ conditions = <<>>
    /\ now = 1
    /\ lastSet = NoSet
    /\ passes = NoPasses
    /\ derivation = NoDerivation

Init ==
    /\ StartVM
    /\ machines \in [Machines -> [spec : Specs, providerStatus : {"unset"}, conditions : {<<>>}]]
    /\ StartNode
    /\ config = ConfigMap(TRUE, TRUE, InfraNamespace)
    /\ StartHelpers

Finish(op, m, userData, in, out) ==
    /\ \A k \in VMKeys : out.vms[k].resourceVersion <= MaxRV
    /\ vms' = out.vms
    /\ secrets' = out.secrets
    /\ machines' = out.machines
    /\ last' = Record(op, m, userData, in, out)
    /\ prev' = Brief(last)
    /\ UNCHANGED <<vmis, nodeVars, helperVars>>

CallCreate(m) ==
    \E case \in CreateCases :
        Finish("Create", m, case[1], case[2], Create(m, case[1], case[2]))

CallUpdate(m) == \E in \in UpdateInputs : Finish("Update", m, NoDoc, in, Update(m, in))

CallDelete(m) == \E in \in DeleteInputs : Finish("Delete", m, NoDoc, in, Delete(m, in))

CallExists(m) == \E in \in ExistsInputs : Finish("Exists", m, NoDoc, in, Exists(m, in))

\* Someone deletes the VM out of band.
EnvDeleteVM(k) ==
    /\ vms[k] # NoVM
    /\ vms' = [vms EXCEPT ![k] = NoVM]
    /\ last' = [NoCall EXCEPT !.op = "OutOfBandDelete"]
    /\ prev' = Brief(last)
    /\ UNCHANGED <<vmis, secrets, machines, nodeVars, helperVars>>

\* The infra cluster reports the VM's created / ready flags.
EnvVMStatus(k) ==
    /\ vms[k] # NoVM
    /\ vms[k].resourceVersion < MaxRV
    /\ vms' = [vms EXCEPT ![k] = Touch(@)]
    /\ UNCHANGED <<vmis, secrets, machines, last, prev, nodeVars, helperVars>>

\* The VM's instance starts (it lags the VM) or goes away.
EnvStartVMI(k) ==
    /\ vms[k] # NoVM
    /\ k \notin vmis
    /\ vmis' = vmis \cup {k}
    /\ UNCHANGED <<vms, secrets, machines, last, prev, nodeVars, helperVars>>

EnvStopVMI(k) ==
    /\ k \in vmis
    /\ vmis' = vmis \ {k}
    /\ UNCHANGED <<vms, secrets, machines, last, prev, nodeVars, helperVars>>

\* The operator edits the machine's provider spec.
EnvEditMachine(m) ==
    /\ \E s \in Specs \ {machines[m].spec} : machines' = [machines EXCEPT ![m].spec = s]
    /\ last' = [NoCall EXCEPT !.op = "EditMachine", !.m = m]
    /\ prev' = Brief(last)
    /\ UNCHANGED <<vms, vmis, secrets, nodeVars, helperVars>>

Next ==
    \/ \E m \in Machines : CallCreate(m)
    \/ \E m \in Machines : CallUpdate(m)
    \/ \E m \in Machines : CallDelete(m)
    \/ \E m \in Machines : CallExists(m)
    \/ \E k \in VMKeys : EnvDeleteVM(k)
    \/ \E k \in VMKeys : EnvVMStatus(k)
    \/ \E k \in VMKeys : EnvStartVMI(k)
    \/ \E k \in VMKeys : EnvStopVMI(k)
    \/ \E m \in Machines : EnvEditMachine(m)

Spec == Init /\ [][Next]_vars

----------------------------------------------------------------------------
(* Reading the call records *)

Issued(rec, call) == {i \in DOMAIN rec.calls : rec.calls[i].call = call}

NumIssued(rec, call) == Cardinality(Issued(rec, call))

\* the response to the (first) call of that name, "" when none was issued
ResOf(rec, call) ==
    IF Issued(rec, call) = {} THEN ""
    ELSE rec.calls[CHOOSE i \in Issued(rec, call) : \A j \in Issued(rec, call) : i <= j].res

ArgOf(rec, call) ==
    IF Issued(rec, call) = {} THEN 0
    ELSE rec.calls[CHOOSE i \in Issued(rec, call) : \A j \in Issued(rec, call) : i <= j].arg

Returned(rec, err) == ~rec.panic /\ rec.err = err

\* no desired-VM derivation failure and no infra call failing with an error
\* other than not-found
Unfailing(rec) ==
    /\ rec.err # InvalidMachineErr
    /\ \A i \in DOMAIN rec.calls : rec.calls[i].res \in {"ok", "nil", "NotFound"}

VMKeyOf(m) == Key(GetInfraNamespace(m), GetMachineName(m))

SecretKeyOf(m) == Key(GetInfraNamespace(m), SecretName(m))

TwoCalls(op1, op2) == prev.op = op1 /\ last.op = op2 /\ prev.m = last.m

----------------------------------------------------------------------------
(* C1 *)

DeleteOnAbsentVM ==
    (last.op = "Delete" /\ ResOf(last, "GetVirtualMachine") = "NotFound")
        => (Returned(last, NoErr) /\ NumIssued(last, "DeleteVirtualMachine") = 0)

DeleteTwiceOutcome ==
    /\ Returned(prev, NoErr)
    /\ Returned(last, NoErr)
    /\ vms[VMKeyOf(last.m)] = NoVM
    /\ NumIssued(prev, "DeleteVirtualMachine") + NumIssued(last, "DeleteVirtualMachine") <= 1

----------------------------------------------------------------------------
(* C2 *)

CreateThenExists == TwoCalls("Create", "Exists") /\ Returned(prev, NoErr)

ExistsReadsCreatedKey ==
    /\ last.calls[1].namespace = prev.calls[2].namespace
    /\ last.calls[1].name = prev.calls[2].name

----------------------------------------------------------------------------
(* C3 *)

\* the previous Create created the secret and failed to create the VM
PartialCreate ==
    /\ prev.op = "Create"
    /\ ResOf(prev, "CreateSecret") = "ok"
    /\ ResOf(prev, "CreateVirtualMachine") \notin {"", "ok"}

\* C3: a Create retried after a partial creation (secret present, VM absent),
\* or run when the VM already exists, against an infra client that rejects
\* creating an already-existing object and meets no other failure, returns nil
\* and leaves exactly one boot-config secret and exactly one VM for the machine.
C3_CreateRetryIdempotent ==
    (/\ TwoCalls("Create", "Create")
     /\ PartialCreate \/ last.had
     /\ last.userData = userDataValue
     /\ last.err # InvalidMachineErr
     /\ \A i \in DOMAIN last.calls : last.calls[i].res \in {"ok", "AlreadyExists"})
        => /\ Returned(last, NoErr)
           /\ secrets[SecretKeyOf(last.m)] # NoDoc
           /\ vms[VMKeyOf(last.m)] # NoVM

----------------------------------------------------------------------------
(* C4 *)

FoundAbsent(rec) == ResOf(rec, "GetVirtualMachine") \in {"NotFound", "nil"}

GraceWindowRequeue(rec) ==
    /\ ~rec.panic
    /\ rec.err = RequeueAfterError(IF rec.allowed THEN requeueAfterSeconds
                                                  ELSE requeueAfterFatalSeconds)
    /\ NumIssued(rec, "UpdateVirtualMachine") = 0
    /\ NumIssued(rec, "SyncMachine") = 0

\* C4: when Update finds the machine's VM absent (the GetVM read reports
\* not-found), it returns a RequeueAfter error, never a plain error and never
\* success: 20 seconds within the grace window, 180 seconds after it; no
\* UpdateVM call and no status sync is performed.
C4_GraceWindow ==
    (last.op = "Update" /\ FoundAbsent(last)) => GraceWindowRequeue(last)

----------------------------------------------------------------------------
(* C5 *)

WasUpdatedIsVersionChange ==
    (last.op = "Update" /\ Returned(last, NoErr))
        => last.bool = (ArgOf(last, "GetVirtualMachine") # ArgOf(last, "UpdateVirtualMachine"))

UpdateAfterUpdate == TwoCalls("Update", "Update") /\ Returned(prev, NoErr)

----------------------------------------------------------------------------
(* C8 *)

CreationFailed(rec) ==
    /\ rec.op = "Create"
    /\ \/ ResOf(rec, "CreateSecret") \notin {"", "ok"}
       \/ ResOf(rec, "CreateVirtualMachine") \notin {"", "ok"}

HasFailureCondition(m, message) ==
    \E i \in DOMAIN machines[m].conditions :
        LET c == machines[m].conditions[i] IN
        /\ c.type = "Failure"
        /\ c.status = "True"
        /\ c.reason = "MachineCreationFailed"
        /\ c.message = message

\* C8: whenever Create fails because secret creation or VM creation failed,
\* on return the machine's condition list holds a condition of type Failure
\* with status true, reason MachineCreationFailed and message equal to the
\* underlying error text, and Create returns a non-nil error.
C8_CreateFailureCondition ==
    CreationFailed(last) =>
        /\ ~last.panic /\ last.err # NoErr
        /\ HasFailureCondition(last.m, Tail(last.err.msg))

----------------------------------------------------------------------------
(* C9 *)

InstanceFetchFailed(rec) ==
    /\ rec.op \in {"Create", "Update"}
    /\ ResOf(rec, "GetVirtualMachineInstance") \notin {"", "ok"}

\* C9: when, after a successful VM create or update, the fetch of the VM's
\* instance fails (in particular not-found, the client returning no instance),
\* status sync still completes using the VM-only fields and the operation
\* does not crash; Create then returns nil and Update its wasUpdated value
\* with a nil error.
C9_SyncToleratesMissingInstance ==
    InstanceFetchFailed(last) =>
        /\ ~last.panic
        /\ NumIssued(last, "SyncMachine") = 1
        /\ ResOf(last, "SyncMachine") = "ok" =>
                (last.err = NoErr /\ machines[last.m].providerStatus = "vm")

----------------------------------------------------------------------------
(* C10 *)

\* C10: when Create is called with boot-config bytes that are not a
\* well-formed configuration document, Create returns a non-nil error that
\* carries no requeue hint, does not crash, and issues no CreateSecret and no
\* CreateVM call.
C10_MalformedBootConfig ==
    (last.op = "Create" /\ ~last.userData.valid) =>
        /\ ~last.panic
        /\ last.err # NoErr
        /\ last.err.type # "RequeueAfter" /\ last.err.requeue = 0
        /\ last.calls = <<>>

----------------------------------------------------------------------------
(* providerID reconciler (package providerid) *)

IDFormat == <<"kubevirt://", "/">>

FormatProviderID_NameOnly(namespace, name) == IDFormat[1] \o name

\* fmt.Sprintf(IDFormat, namespace, name)
FormatProviderID(namespace, name) == IDFormat[1] \o namespace \o IDFormat[2] \o name

NodeCall(call, res) == [call |-> call, res |-> res]

\* r.client.Get of the node
GetNode(n, in) ==
    IF in.getNode = "fault" THEN [node |-> NoNode, err |-> TransientErr]
    ELSE IF ~nodes[n].exists THEN [node |-> NoNode, err |-> NotFoundErr]
    ELSE [node |-> nodes[n], err |-> NoErr]

\* r.client.Update of the node
UpdateNode(n, node, in) ==
    IF in.updateNode = "fault" THEN [err |-> TransientErr, nodes |-> nodes]
    ELSE [err |-> NoErr, nodes |-> [nodes EXCEPT ![n] = node]]

\* tenantClusterClient.GetConfigMapValue: the map stored under the "config" key
GetConfigMapValue(in) ==
    IF in.getConfig = "fault" \/ ~config.readable
    THEN [cMap |-> ConfigMap(FALSE, FALSE, ""), err |-> TransientErr]
    ELSE [cMap |-> config, err |-> NoErr]

\* kubeClient.GetNamespace
GetNamespace(lookup) ==
    IF lookup = "fault" \/ ~config.readable THEN [namespace |-> "", err |-> TransientErr]
    ELSE IF ~config.hasKey THEN [namespace |-> "", err |-> InvalidMachineErr]
    ELSE [namespace |-> config.namespace, err |-> NoErr]

\* infraClusterClient.GetVirtualMachineInstance as the reconciler uses it
GetInstance(namespace, name, in) ==
    IF in.getVMI = "fault" THEN [name |-> "", err |-> TransientErr]
    ELSE IF Key(namespace, name) \notin instances THEN [name |-> "", err |-> NotFoundErr]
    ELSE [name |-> name, err |-> NoErr]

getVMName_NameOnMiss(nodeName, infraClusterNamespace, in) == [name |-> nodeName, err |-> NoErr]

getVMName(nodeName, infraClusterNamespace, in) ==
    LET vmi == GetInstance(infraClusterNamespace, nodeName, in) IN
    IF vmi.err # NoErr THEN [name |-> "", err |-> vmi.err]
    ELSE [name |-> vmi.name, err |-> NoErr]

\* The outcome of one Reconcile call.
\* sent is the providerID of the node handed to r.client.Update, "" when no update is issued.
Reconciled(version, n, preID, namespace, id, sent, err, calls, nodes_) ==
    [version |-> version, node |-> n, preID |-> preID, namespace |-> namespace, id |-> id,
     sent |-> sent, err |-> err, requeue |-> FALSE, requeueAfter |-> 0, calls |-> calls,
     nodes |-> nodes_]

AlreadyAssigned_Always(node) == TRUE

AlreadyAssigned_Never(node) == FALSE

\* node.Spec.ProviderID != ""
AlreadyAssigned(node) == node.providerID # ""

Reconcile_LookupErrorReturned(n, in) ==
    LET got == GetNode(n, in)
        c1 == NodeCall("GetNode", Res(got.err, TRUE))
    IN
    IF got.err # NoErr
    THEN IF IsNotFound(got.err)
         THEN Reconciled("v2", n, "", "", "", "", NoErr, <<c1>>, nodes)
         ELSE Reconciled("v2", n, "", "", "", "", Wrapf("error getting node", got.err), <<c1>>, nodes)
    ELSE IF AlreadyAssigned(got.node)
    THEN Reconciled("v2", n, got.node.providerID, "", "", "", NoErr, <<c1>>, nodes)
    ELSE
    LET cm == GetConfigMapValue(in)
        c2 == NodeCall("GetConfigMapValue", Res(cm.err, TRUE))
    IN
    IF cm.err # NoErr
    THEN Reconciled("v2", n, "", "", "", "", cm.err, <<c1, c2>>, nodes)
    ELSE IF ~cm.cMap.hasKey
    THEN Reconciled("v2", n, "", "", "", "", InvalidMachineErr, <<c1, c2>>, nodes)
    ELSE
    LET infraClusterNamespace == cm.cMap.namespace
        vm == getVMName(n, infraClusterNamespace, in)
        c3 == NodeCall("GetVirtualMachineInstance", Res(vm.err, TRUE))
    IN
    IF vm.err # NoErr
    THEN Reconciled("v2", n, "", infraClusterNamespace, "", "", vm.err, <<c1, c2, c3>>, nodes)
    ELSE
    LET node == [got.node EXCEPT !.providerID = FormatProviderID(infraClusterNamespace, vm.name)]
        upd == UpdateNode(n, node, in)
        c4 == NodeCall("UpdateNode", Res(upd.err, TRUE))
    IN
    IF upd.err # NoErr
    THEN Reconciled("v2", n, "", infraClusterNamespace, vm.name, node.providerID,
                    Wrapf("failed updating node", upd.err), <<c1, c2, c3, c4>>, upd.nodes)
    ELSE Reconciled("v2", n, "", infraClusterNamespace, vm.name, node.providerID,
                    NoErr, <<c1, c2, c3, c4>>, upd.nodes)

Reconcile(n, in) ==
    LET got == GetNode(n, in)
        c1 == NodeCall("GetNode", Res(got.err, TRUE))
    IN
    IF got.err # NoErr
    THEN IF IsNotFound(got.err)
         THEN Reconciled("v2", n, "", "", "", "", NoErr, <<c1>>, nodes)
         ELSE Reconciled("v2", n, "", "", "", "", Wrapf("error getting node", got.err), <<c1>>, nodes)
    ELSE IF AlreadyAssigned(got.node)
    THEN Reconciled("v2", n, got.node.providerID, "", "", "", NoErr, <<c1>>, nodes)
    ELSE
    LET cm == GetConfigMapValue(in)
        c2 == NodeCall("GetConfigMapValue", Res(cm.err, TRUE))
    IN
    IF cm.err # NoErr
    THEN Reconciled("v2", n, "", "", "", "", NoErr, <<c1, c2>>, nodes)
    ELSE IF ~cm.cMap.hasKey
    THEN Reconciled("v2", n, "", "", "", "", InvalidMachineErr, <<c1, c2>>, nodes)
    ELSE
    LET infraClusterNamespace == cm.cMap.namespace
        vm == getVMName(n, infraClusterNamespace, in)
        c3 == NodeCall("GetVirtualMachineInstance", Res(vm.err, TRUE))
    IN
    IF vm.err # NoErr
    THEN Reconciled("v2", n, "", infraClusterNamespace, "", "", vm.err, <<c1, c2, c3>>, nodes)
    ELSE
    LET node == [got.node EXCEPT !.providerID = FormatProviderID(infraClusterNamespace, vm.name)]
        upd == UpdateNode(n, node, in)
        c4 == NodeCall("UpdateNode", Res(upd.err, TRUE))
    IN
    IF upd.err # NoErr
    THEN Reconciled("v2", n, "", infraClusterNamespace, vm.name, node.providerID,
                    Wrapf("failed updating node", upd.err), <<c1, c2, c3, c4>>, upd.nodes)
    ELSE Reconciled("v2", n, "", infraClusterNamespace, vm.name, node.providerID,
                    NoErr, <<c1, c2, c3, c4>>, upd.nodes)

\* The earlier getVMName, which looks the infra namespace up itself.
getVMNameV1(nodeName, in) ==
    LET ns == GetNamespace(in.getConfig) IN
    IF ns.err # NoErr
    THEN [name |-> "", namespace |-> "", found |-> "",
          err |-> Wrapf("failed to get infraCluster namespace", ns.err)]
    ELSE LET vmi == GetInstance(ns.namespace, nodeName, in) IN
         IF vmi.err # NoErr
         THEN [name |-> "", namespace |-> ns.namespace, found |-> Res(vmi.err, TRUE), err |-> vmi.err]
         ELSE [name |-> vmi.name, namespace |-> ns.namespace, found |-> "ok", err |-> NoErr]

\* The earlier Reconcile, which reads the infra namespace through GetNamespace.
ReconcileV1(n, in) ==
    LET got == GetNode(n, in)
        c1 == NodeCall("GetNode", Res(got.err, TRUE))
    IN
    IF got.err # NoErr
    THEN IF IsNotFound(got.err)
         THEN Reconciled("v1", n, "", "", "", "", NoErr, <<c1>>, nodes)
         ELSE Reconciled("v1", n, "", "", "", "", Wrapf("error getting node", got.err), <<c1>>, nodes)
    ELSE IF AlreadyAssigned(got.node)
    THEN Reconciled("v1", n, got.node.providerID, "", "", "", NoErr, <<c1>>, nodes)
    ELSE
    LET vm == getVMNameV1(n, in)
        c2 == NodeCall("GetNamespace", IF vm.namespace = "" THEN "failed" ELSE "ok")
        cs == IF vm.found = "" THEN <<c1, c2>>
              ELSE <<c1, c2, NodeCall("GetVirtualMachineInstance", vm.found)>>
    IN
    IF vm.err # NoErr
    THEN Reconciled("v1", n, "", vm.namespace, "", "", vm.err, cs, nodes)
    ELSE
    LET ns == GetNamespace(in.getConfigAgain)
        c4 == NodeCall("GetNamespace", Res(ns.err, TRUE))
    IN
    IF ns.err # NoErr
    THEN Reconciled("v1", n, "", vm.namespace, vm.name, "",
                    Wrapf("failed to get infraCluster namespace", ns.err), Append(cs, c4), nodes)
    ELSE
    LET node == [got.node EXCEPT !.providerID = FormatProviderID(ns.namespace, vm.name)]
        upd == UpdateNode(n, node, in)
        c5 == NodeCall("UpdateNode", Res(upd.err, TRUE))
    IN
    IF upd.err # NoErr
    THEN Reconciled("v1", n, "", ns.namespace, vm.name, node.providerID,
                    Wrapf("failed updating node", upd.err), cs \o <<c4, c5>>, upd.nodes)
    ELSE Reconciled("v1", n, "", ns.namespace, vm.name, node.providerID,
                    NoErr, cs \o <<c4, c5>>, upd.nodes)

----------------------------------------------------------------------------
(* State machine of the providerID reconciler *)

DefaultNodeIn ==
    [getNode |-> "serve", getConfig |-> "serve", getConfigAgain |-> "serve",
     getVMI |-> "serve", updateNode |-> "serve"]

ReconcileInputs ==
    {DefaultNodeIn} \cup
    {[DefaultNodeIn EXCEPT ![f] = "fault"] :
        f \in {"getNode", "getConfig", "getConfigAgain", "getVMI", "updateNode"}}

InitNode ==
    /\ StartVM
    /\ machines = [m \in Machines |-> [spec |-> "small", providerStatus |-> "unset", conditions |-> <<>>]]
    /\ StartNode
    /\ config \in ConfigMaps
    /\ StartHelpers

FinishReconcile(out) ==
    /\ nodes' = out.nodes
    /\ lastReconcile' = [version |-> out.version, node |-> out.node, preID |-> out.preID,
                         postID |-> out.nodes[out.node].providerID, namespace |-> out.namespace,
                         id |-> out.id, sent |-> out.sent, err |-> out.err,
                         requeue |-> out.requeue, requeueAfter |-> out.requeueAfter,
                         calls |-> out.calls]
    /\ UNCHANGED <<config, instances, vmVars, helperVars>>

CallReconcile(n) == \E in \in ReconcileInputs : FinishReconcile(Reconcile(n, in))

CallReconcileV1(n) == \E in \in ReconcileInputs : FinishReconcile(ReconcileV1(n, in))

\* Events between two Reconcile calls; after one, no call outcome is current.
\* A node registers with the tenant cluster (with no providerID), or is removed.
EnvAddNode(n) ==
    /\ ~nodes[n].exists
    /\ nodes' = [nodes EXCEPT ![n] = [exists |-> TRUE, providerID |-> ""]]
    /\ lastReconcile' = NoReconcile
    /\ UNCHANGED <<config, instances, vmVars, helperVars>>

EnvDeleteNode(n) ==
    /\ nodes[n].exists
    /\ nodes' = [nodes EXCEPT ![n] = NoNode]
    /\ lastReconcile' = NoReconcile
    /\ UNCHANGED <<config, instances, vmVars, helperVars>>

\* An infrastructure instance appears or goes away (a rename is the two together).
EnvStartInstance(k) ==
    /\ k \notin instances
    /\ instances' = instances \cup {k}
    /\ lastReconcile' = NoReconcile
    /\ UNCHANGED <<nodes, config, vmVars, helperVars>>

EnvStopInstance(k) ==
    /\ k \in instances
    /\ instances' = instances \ {k}
    /\ lastReconcile' = NoReconcile
    /\ UNCHANGED <<nodes, config, vmVars, helperVars>>

\* The shared configuration is edited (or removed).
EnvConfigure(c) ==
    /\ c # config
    /\ config' = c
    /\ lastReconcile' = NoReconcile
    /\ UNCHANGED <<nodes, instances, vmVars, helperVars>>

NextNode ==
    \/ \E n \in NodeNames : CallReconcile(n)
    \/ \E n \in NodeNames : CallReconcileV1(n)
    \/ \E n \in NodeNames : EnvAddNode(n)
    \/ \E n \in NodeNames : EnvDeleteNode(n)
    \/ \E k \in InstanceKeys : EnvStartInstance(k)
    \/ \E k \in InstanceKeys : EnvStopInstance(k)
    \/ \E c \in ConfigMaps : EnvConfigure(c)

SpecNode == InitNode /\ [][NextNode]_vars

----------------------------------------------------------------------------
(* Claims about the providerID reconciler *)

ReconcileStep == \E n \in NodeNames : CallReconcile(n) \/ CallReconcileV1(n)

UpdatesIssued(r) == Cardinality({i \in DOMAIN r.calls : r.calls[i].call = "UpdateNode"})

\* C6: once a node's providerID is non-empty, no Reconcile call (of either
\* version of the reconciler) changes it or issues a node update, whatever
\* happened to the node, to the matching instance or to the configured infra
\* namespace before the call.
C6_ProviderIDImmutable ==
    [][ReconcileStep =>
        \A n \in NodeNames :
            (nodes[n].exists /\ nodes[n].providerID # "") =>
                /\ nodes'[n] = nodes[n]
                /\ lastReconcile'.node = n => UpdatesIssued(lastReconcile') = 0]_vars

\* Reconcile has just returned for an assigned node whose instance is gone from
\* the namespace its providerID names and whose configuration now names another
\* namespace, where an instance of the node's name runs.
C6_Witness ==
    /\ lastReconcile.version \in {"v1", "v2"}
    /\ lastReconcile.preID = "kubevirt://" \o InfraNamespace \o "/" \o lastReconcile.node
    /\ lastReconcile.postID = lastReconcile.preID
    /\ config = ConfigMap(TRUE, TRUE, "default")
    /\ Key(InfraNamespace, lastReconcile.node) \notin instances
    /\ Key("default", lastReconcile.node) \in instances

\* Reconcile (the version that reads the shared configuration map) has just
\* read a node with no providerID, found the infra namespace in the
\* configuration and found the instance named like the node.
AssignmentCase ==
    /\ lastReconcile.version = "v2"
    /\ Len(lastReconcile.calls) >= 3
    /\ \A i \in 1..3 : lastReconcile.calls[i].res = "ok"
    /\ lastReconcile.preID = ""
    /\ config.readable /\ config.hasKey
    /\ Key(config.namespace, lastReconcile.node) \in instances

ExpectedProviderID == "kubevirt://" \o config.namespace \o "/" \o lastReconcile.node

\* C7 as stated: in the assignment case the node is updated exactly once with
\* "kubevirt://" + ns + "/" + instance name and Reconcile returns no error and
\* no requeue.
C7_Assignment_AsStated ==
    AssignmentCase =>
        /\ UpdatesIssued(lastReconcile) = 1
        /\ lastReconcile.postID = ExpectedProviderID
        /\ lastReconcile.err = NoErr
        /\ ~lastReconcile.requeue /\ lastReconcile.requeueAfter = 0

\* C7: in the assignment case exactly one node update is issued, carrying
\* "kubevirt://" + ns + "/" + instance name, and no requeue is asked for; when
\* the update succeeds the node carries that providerID and no error is
\* returned; when it fails the node is left without providerID and the
\* "failed updating node" error is returned.
C7_Assignment ==
    AssignmentCase =>
        /\ UpdatesIssued(lastReconcile) = 1
        /\ lastReconcile.sent = ExpectedProviderID
        /\ ~lastReconcile.requeue /\ lastReconcile.requeueAfter = 0
        /\ lastReconcile.calls[4].res = "ok" =>
                /\ lastReconcile.postID = ExpectedProviderID
                /\ lastReconcile.err = NoErr
        /\ lastReconcile.calls[4].res # "ok" =>
                /\ lastReconcile.postID = ""
                /\ lastReconcile.err = Wrapf("failed updating node", TransientErr)

\* The assignment case in the non-default namespace, the update having succeeded.
C7_Witness ==
    /\ AssignmentCase
    /\ config.namespace = "default"
    /\ lastReconcile.postID = "kubevirt://default/" \o lastReconcile.node
    /\ lastReconcile.err = NoErr

----------------------------------------------------------------------------
(* C11 *)

ReadOutcome(rec) == ResOf(rec, "GetVirtualMachine")

\* C11: Exists returns (true, nil) iff the VM read returns a VM, (false, nil)
\* iff the read reports not-found or returns no object, and (false, err) with
\* the read's error for every other read failure; it issues just that one
\* read, for the machine's VM key.
C11_ExistsMapsOutcomes ==
    last.op = "Exists" =>
        /\ ~last.panic
        /\ Len(last.calls) = 1 /\ last.calls[1].call = "GetVirtualMachine"
        /\ <<last.calls[1].namespace, last.calls[1].name>> = VMKeyOf(last.m)
        /\ (last.bool /\ last.err = NoErr) <=> ReadOutcome(last) = "ok"
        /\ (~last.bool /\ last.err = NoErr) <=> ReadOutcome(last) \in {"NotFound", "nil"}
        /\ (~last.bool /\ last.err # NoErr) <=> ReadOutcome(last) \notin {"ok", "NotFound", "nil"}
        /\ ReadOutcome(last) = "ok" <=>
                (vms[VMKeyOf(last.m)] # NoVM /\ ReadOutcome(last) # "Transient")
        /\ last.err # NoErr => last.err = TransientErr

\* Exists has just met a read failure other than not-found while the VM exists.
C11_Witness ==
    /\ last.op = "Exists"
    /\ vms[VMKeyOf(last.m)] # NoVM
    /\ ReadOutcome(last) = "Transient"
    /\ ~last.bool /\ last.err = TransientErr

----------------------------------------------------------------------------
(* C12 *)

\* C12: a Delete whose VM read returns a VM issues exactly one DeleteVM call,
\* for the observed VM's name and namespace, with a grace period of 10
\* seconds; if that call fails Delete returns a non-nil error (the wrapped
\* call error) and the VM stays; if the VM read fails with an error other than
\* not-found, Delete returns that error and issues no DeleteVM call.
C12_DeleteCallAndErrors ==
    last.op = "Delete" =>
        /\ ReadOutcome(last) = "ok" =>
            /\ last.had
            /\ NumIssued(last, "DeleteVirtualMachine") = 1
            /\ Len(last.calls) = 2
            /\ last.calls[2].call = "DeleteVirtualMachine"
            /\ <<last.calls[2].namespace, last.calls[2].name>> = VMKeyOf(last.m)
            /\ last.calls[2].arg = 10
            /\ last.calls[2].res # "ok" =>
                    /\ last.err # NoErr
                    /\ last.err = Wrapf("failed to delete VM", TransientErr)
                    /\ vms[VMKeyOf(last.m)] # NoVM
            /\ last.calls[2].res = "ok" => (last.err = NoErr /\ vms[VMKeyOf(last.m)] = NoVM)
        /\ ReadOutcome(last) \notin {"", "ok", "NotFound", "nil"} =>
            /\ last.err = TransientErr
            /\ NumIssued(last, "DeleteVirtualMachine") = 0

\* Delete has just seen its DeleteVM call fail on an existing VM.
C12_Witness ==
    /\ last.op = "Delete"
    /\ ReadOutcome(last) = "ok"
    /\ ResOf(last, "DeleteVirtualMachine") = "Transient"
    /\ last.err = Wrapf("failed to delete VM", TransientErr)

----------------------------------------------------------------------------
(* State machine of the boot-config hostname injection *)

Hostnames == {"m1", "machine-test"}

TopLevelFields ==
    {NoKeys, [k \in {"key1"} |-> "value1"]}
    \cup {[k \in {"size"} |-> n] : n \in Numbers}
    \cup {[k \in {"key1", "size"} |-> IF k = "key1" THEN "value1" ELSE n] : n \in Numbers}

StorageFields == {NoKeys, [k \in {"disks"} |-> "[]"]}

motdFile == FileEntry("root", "/etc/motd", hostnameFileMode, "data:,hello")
issueFile == FileEntry("root", "/etc/issue", hostnameFileMode, "data:,welcome")

FileLists == {<<>>, <<motdFile>>, <<motdFile, issueFile>>}

\* The boot-config payloads handed to the injection: bytes that are no JSON,
\* JSON that is no object, and objects with and without "storage" and "files".
InjectDocs ==
    {MalformedDoc, NullDoc, ArrayDoc}
    \cup {Doc(TRUE, "object", keys, "absent", NoKeys, "absent", <<>>) : keys \in TopLevelFields}
    \cup {Doc(TRUE, "object", keys, "other", NoKeys, "absent", <<>>) : keys \in TopLevelFields}
    \cup {Doc(TRUE, "object", keys, "object", skeys, files, <<>>) :
            keys \in TopLevelFields, skeys \in StorageFields, files \in {"absent", "other"}}
    \cup {Doc(TRUE, "object", keys, "object", skeys, "list", fileList) :
            keys \in TopLevelFields, skeys \in StorageFields, fileList \in FileLists}

InitInject ==
    /\ StartVM
    /\ machines = [m \in Machines |-> [spec |-> "small", providerStatus |-> "unset", conditions |-> <<>>]]
    /\ StartNode
    /\ config = ConfigMap(TRUE, TRUE, InfraNamespace)
    /\ StartHelpers

CallAddHostnameToUserData(src, hostname) ==
    LET out == addHostnameToUserData(src, hostname) IN
    /\ injection' = [called |-> TRUE, src |-> src, hostname |-> hostname,
                     panic |-> out.panic, err |-> out.err, data |-> out.data]
    /\ UNCHANGED <<vmVars, nodeVars, conditions, now, lastSet, passes, derivation>>

NextInject == \E src \in InjectDocs, hostname \in Hostnames : CallAddHostnameToUserData(src, hostname)

SpecInject == InitInject /\ [][NextInject]_vars

----------------------------------------------------------------------------
(* C13 *)

WellFormedObject(doc) == doc.valid /\ doc.top = "object"

HostnameFile(hostname) ==
    [filesystem |-> "root", path |-> "/etc/hostname", mode |-> 420, source |-> "data:," \o hostname]

\* C13: for every well-formed boot-config document D with no "storage" key and
\* every hostname h, the derived document has exactly the keys of D with
\* their values unchanged plus a "storage" key whose "files" list has exactly
\* the one /etc/hostname entry (filesystem root, mode 420, source "data:,"+h).
C13_HostnameInjection ==
    (injection.called /\ WellFormedObject(injection.src) /\ injection.src.storage = "absent") =>
        /\ ~injection.panic /\ injection.err = NoErr
        /\ injection.data.valid /\ injection.data.top = "object"
        /\ injection.data.keys = injection.src.keys
        /\ injection.data.storage = "object" /\ injection.data.skeys = NoKeys
        /\ injection.data.files = "list"
        /\ injection.data.fileList = <<HostnameFile(injection.hostname)>>

----------------------------------------------------------------------------
(* C14 *)

\* C14: for every well-formed boot-config document that already has a
\* "storage" object, with or without a "files" list of n entries, the
\* injection succeeds and yields a document holding every pre-existing
\* top-level field, every pre-existing storage field and the n pre-existing
\* file entries unchanged and in order, followed by the /etc/hostname entry.
C14_InjectionPreserves ==
    (/\ injection.called /\ WellFormedObject(injection.src)
     /\ injection.src.storage = "object"
     /\ injection.src.files \in {"absent", "list"}) =>
        /\ ~injection.panic /\ injection.err = NoErr
        /\ injection.data.keys = injection.src.keys
        /\ injection.data.skeys = injection.src.skeys
        /\ injection.data.fileList =
                Append(injection.src.fileList, HostnameFile(injection.hostname))

----------------------------------------------------------------------------
(* C15 *)

\* Reconcile has just read a node with no providerID.
ReadUnassigned ==
    /\ lastReconcile.version \in {"v1", "v2"}
    /\ lastReconcile.calls[1].res = "ok"
    /\ lastReconcile.preID = ""

\* the responses to the configuration lookups of the call
Lookups(r) ==
    {i \in DOMAIN r.calls : r.calls[i].call \in {"GetConfigMapValue", "GetNamespace"}}

ReadFailed(r) == \E i \in Lookups(r) : r.calls[i].res # "ok"

\* the map was read but holds no "namespace" key
KeyMissing(r) ==
    /\ r.version = "v2"
    /\ Len(r.calls) = 2 /\ r.calls[2].res = "ok"

LookupFailed(r) == ReadFailed(r) \/ KeyMissing(r)

InstanceLookups(r) ==
    Cardinality({i \in DOMAIN r.calls : r.calls[i].call = "GetVirtualMachineInstance"})

EventDropped(r) ==
    /\ UpdatesIssued(r) = 0
    /\ r.postID = "" /\ nodes[r.node].exists
    /\ ~r.requeue /\ r.requeueAfter = 0

\* C15 as stated: when Reconcile runs for a node with empty providerID and the
\* infra namespace lookup fails, it returns no error and no requeue, performs
\* no instance lookup and no node update, and the node stays Unassigned.
C15_LookupFailureDropped_AsStated ==
    (ReadUnassigned /\ LookupFailed(lastReconcile)) =>
        /\ EventDropped(lastReconcile)
        /\ InstanceLookups(lastReconcile) = 0
        /\ lastReconcile.err = NoErr

\* C15: when the lookup fails no node update is issued, no requeue is asked
\* for and the node stays Unassigned.  The reconciler reading the map through
\* GetConfigMapValue performs no instance lookup; it returns no error when the
\* read fails and InvalidMachineConfiguration when the map lacks the
\* "namespace" key.  The reconciler reading through GetNamespace returns the
\* error "failed to get infraCluster namespace", and has performed no
\* instance lookup when it is its first lookup that fails.
C15_LookupFailureDropped ==
    (ReadUnassigned /\ LookupFailed(lastReconcile)) =>
        /\ EventDropped(lastReconcile)
        /\ lastReconcile.version = "v2" =>
            /\ InstanceLookups(lastReconcile) = 0
            /\ ReadFailed(lastReconcile) => lastReconcile.err = NoErr
            /\ KeyMissing(lastReconcile) => lastReconcile.err = InvalidMachineErr
        /\ lastReconcile.version = "v1" =>
            /\ lastReconcile.err \in
                    {Wrapf("failed to get infraCluster namespace", e) :
                        e \in {TransientErr, InvalidMachineErr}}
            /\ lastReconcile.calls[2].res # "ok" => InstanceLookups(lastReconcile) = 0

\* The configuration read has just failed for an unassigned node whose
\* instance runs in the configured namespace, and the event was dropped.
C15_Witness ==
    /\ ReadUnassigned
    /\ lastReconcile.version = "v2"
    /\ ReadFailed(lastReconcile)
    /\ config.readable /\ config.hasKey
    /\ Key(config.namespace, lastReconcile.node) \in instances
    /\ lastReconcile.err = NoErr
    /\ nodes[lastReconcile.node] = [exists |-> TRUE, providerID |-> ""]

----------------------------------------------------------------------------
(* C16 *)

\* Reconcile has just read an unassigned node and the infra namespace, and
\* the lookup of the instance named like the node found none.
NoInstanceCase ==
    /\ ReadUnassigned
    /\ lastReconcile.version = "v2"
    /\ Len(lastReconcile.calls) >= 3
    /\ lastReconcile.calls[2].res = "ok"
    /\ \/ Key(config.namespace, lastReconcile.node) \notin instances
       \/ lastReconcile.calls[3].res # "ok"

\* C16: when Reconcile runs for a node with empty providerID and no instance
\* named like the node is found, no node update is issued and the node's
\* providerID stays empty (the lookup error is returned, no requeue delay is
\* asked for); the node is still Unassigned for a later reconcile.
C16_NoTransitionWithoutInstance ==
    NoInstanceCase =>
        /\ UpdatesIssued(lastReconcile) = 0
        /\ lastReconcile.sent = ""
        /\ lastReconcile.postID = ""
        /\ nodes[lastReconcile.node] = [exists |-> TRUE, providerID |-> ""]
        /\ lastReconcile.err \in {NotFoundErr, TransientErr}
        /\ ~lastReconcile.requeue /\ lastReconcile.requeueAfter = 0

\* The instance lookup has just reported not-found for an unassigned node.
C16_Witness ==
    /\ NoInstanceCase
    /\ Key(config.namespace, lastReconcile.node) \notin instances
    /\ lastReconcile.calls[3].res = "NotFound"
    /\ lastReconcile.err = NotFoundErr

----------------------------------------------------------------------------
(* Provider condition helpers (package vm) *)

\* Index of the first condition of that type, 0 for the nil result.
findProviderCondition_Never(conds, conditionType) == 0

findProviderCondition(conds, conditionType) ==
    IF \E i \in DOMAIN conds : conds[i].type = conditionType
    THEN CHOOSE i \in DOMAIN conds :
            /\ conds[i].type = conditionType
            /\ \A j \in DOMAIN conds : conds[j].type = conditionType => i <= j
    ELSE 0

shouldUpdateCondition(newCondition, existingCondition) ==
    newCondition.reason # existingCondition.reason
        \/ newCondition.message # existingCondition.message

\* The condition as updateExistingCondition leaves it; clock is what
\* metav1.Now() reads.
updateExistingCondition(newCondition, existingCondition, clock) ==
    IF ~shouldUpdateCondition(newCondition, existingCondition) THEN existingCondition
    ELSE [existingCondition EXCEPT
            !.lastTransitionTime = IF existingCondition.status # newCondition.status
                                   THEN clock ELSE @,
            !.status = newCondition.status,
            !.reason = newCondition.reason,
            !.message = newCondition.message,
            !.lastProbeTime = newCondition.lastProbeTime]

setKubevirtMachineProviderCondition(condition, conds, clock) ==
    LET existing == findProviderCondition(conds, condition.type) IN
    IF existing = 0
    THEN Append(conds, [condition EXCEPT !.lastProbeTime = clock, !.lastTransitionTime = clock])
    ELSE [conds EXCEPT ![existing] = updateExistingCondition(condition, conds[existing], clock)]

----------------------------------------------------------------------------
(* State machine of the condition list *)

MaxTime == 3        \* the clock readings at which a condition is set: 1..MaxTime

ConditionTypes == {"Failure", "Ready"}
ConditionStatuses == {"True", "False"}
ConditionReasons == {"MachineCreationFailed", "MachineCreationSucceeded"}
ConditionMessages == {"", "connection refused"}

\* The conditions a caller passes: it leaves lastProbeTime at the zero time,
\* as conditionFailed() does, or stamps it with the current time.
PassedConditions(clock) ==
    {Condition(t, st, r, msg, probe, 0) :
        t \in ConditionTypes, st \in ConditionStatuses, r \in ConditionReasons,
        msg \in ConditionMessages, probe \in {0, clock}}

InitConditions ==
    /\ StartVM
    /\ machines = [m \in Machines |-> [spec |-> "small", providerStatus |-> "unset", conditions |-> <<>>]]
    /\ StartNode
    /\ config = ConfigMap(TRUE, TRUE, InfraNamespace)
    /\ StartHelpers

\* One call at clock reading now; the clock has moved on when the next call is made.
CallSetCondition(condition) ==
    /\ now <= MaxTime
    /\ conditions' = setKubevirtMachineProviderCondition(condition, conditions, now)
    /\ lastSet' = [called |-> TRUE, condition |-> condition, before |-> conditions, at |-> now]
    /\ now' = now + 1
    /\ UNCHANGED <<vmVars, nodeVars, injection, passes, derivation>>

NextConditions == \E condition \in PassedConditions(now) : CallSetCondition(condition)

SpecConditions == InitConditions /\ [][NextConditions]_vars

----------------------------------------------------------------------------
(* C17 *)

OnePerType(conds) ==
    \A i, j \in DOMAIN conds : conds[i].type = conds[j].type => i = j

HasType(conds, type) == \E i \in DOMAIN conds : conds[i].type = type

\* the condition of that type (lists hold one per type)
OfType(conds, type) == conds[CHOOSE i \in DOMAIN conds : conds[i].type = type]

\* C17: starting from a list with at most one condition per type, after any
\* sequence of setKubevirtMachineProviderCondition calls the list holds at most
\* one condition per type; setting a type already present never changes the
\* list length, and setting an absent type appends exactly one condition.
C17_ConditionUniqueness ==
    /\ OnePerType(conditions)
    /\ lastSet.called =>
        /\ HasType(conditions, lastSet.condition.type)
        /\ HasType(lastSet.before, lastSet.condition.type) =>
                /\ Len(conditions) = Len(lastSet.before)
                /\ \A i \in DOMAIN conditions : conditions[i].type = lastSet.before[i].type
        /\ ~HasType(lastSet.before, lastSet.condition.type) =>
                /\ Len(conditions) = Len(lastSet.before) + 1
                /\ SubSeq(conditions, 1, Len(lastSet.before)) = lastSet.before
                /\ conditions[Len(conditions)].type = lastSet.condition.type

\* A type already in a two-condition list has just been set again, with
\* another status, reason and message.
C17_Witness ==
    /\ lastSet.called
    /\ Len(lastSet.before) = 2 /\ Len(conditions) = 2
    /\ HasType(lastSet.before, lastSet.condition.type)
    /\ OfType(lastSet.before, lastSet.condition.type).status # lastSet.condition.status
    /\ OfType(lastSet.before, lastSet.condition.type).reason # lastSet.condition.reason
    /\ OfType(conditions, lastSet.condition.type).status = lastSet.condition.status

----------------------------------------------------------------------------
(* C18 *)

\* C18: for every condition of the list and every call, the condition's
\* lastTransitionTime changes only if the call changes that condition's
\* status; and whenever a call passes a status different from the stored one,
\* the stored status becomes the new status and lastTransitionTime is advanced.
C18_TransitionTime ==
    lastSet.called =>
        /\ \A i \in DOMAIN lastSet.before :
                conditions[i].lastTransitionTime # lastSet.before[i].lastTransitionTime
                    => conditions[i].status # lastSet.before[i].status
        /\ (/\ HasType(lastSet.before, lastSet.condition.type)
            /\ OfType(lastSet.before, lastSet.condition.type).status # lastSet.condition.status)
                => /\ OfType(conditions, lastSet.condition.type).status = lastSet.condition.status
                   /\ OfType(conditions, lastSet.condition.type).lastTransitionTime = lastSet.at
                   /\ OfType(lastSet.before, lastSet.condition.type).lastTransitionTime < lastSet.at

----------------------------------------------------------------------------
(* C19 *)

\* C19: every call for a condition type sets that condition's lastProbeTime
\* to the time of the call, when the condition is first added and when an
\* existing one is observed again, whether or not its status, reason or
\* message changed; lastProbeTime never moves backwards.
C19_ProbeTime ==
    lastSet.called =>
        /\ OfType(conditions, lastSet.condition.type).lastProbeTime = lastSet.at
        /\ \A i \in DOMAIN lastSet.before :
                conditions[i].lastProbeTime >= lastSet.before[i].lastProbeTime

----------------------------------------------------------------------------
(* State machine of two machines reconciled concurrently *)

TenantNamespaces == {"openshift-machine-api", "team-b"}
MachineNames == {"m1", "m2"}

TenantMachines ==
    {TenantMachine(ns, name, id) : ns \in TenantNamespaces, name \in MachineNames, id \in Namespaces}

\* The instance template of a machine's VM.
stubBuildVMITemplate(machine) ==
    [labels |-> {<<"kubevirt.io/vm", machine.name>>, <<"name", machine.name>>},
     userDataSecretRef |-> machine.name \o "-ignition"]

\* The VM of a machine: named after the machine, in the namespace its
\* cluster-ID label names.  labels is the machine's own label map, not a
\* copy of it: the write of the "owned" label lands in the machine as well.
\* Returns the VM and the machine as the derivation leaves it.
stubVirtualMachine(machine) ==
    LET namespace == Label(machine.labels, MachineClusterIDLabel)
        vmiTemplate == stubBuildVMITemplate(machine)
        labels == SetLabel(machine.labels,
                           "tenantcluster-test-id-asdfg-machine.openshift.io", "owned")
    IN  [vm |-> [name |-> machine.name, namespace |-> namespace, labels |-> labels,
                 dataVolume |-> [name |-> machine.name, sourcePvcName |-> machine.sourcePvcName,
                                 namespace |-> namespace],
                 template |-> vmiTemplate],
         machine |-> [machine EXCEPT !.labels = labels]]

\* The boot-config secret of a machine.
stubIgnitionSecret(machine) ==
    [name |-> machine.name \o "-ignition",
     namespace |-> Label(machine.labels, MachineClusterIDLabel)]

Target(kind, object) == [kind |-> kind, namespace |-> object.namespace, name |-> object.name]

\* The infra objects a manager call for the machine creates, reads, updates
\* or deletes.
Targets(machine, op) ==
    IF op = "Create"
    THEN {Target("Secret", stubIgnitionSecret(machine)),
          Target("VirtualMachine", stubVirtualMachine(machine).vm)}
    ELSE {Target("VirtualMachine", stubVirtualMachine(machine).vm)}

ManagerOps == {"Create", "Update", "Delete"}

InitPasses ==
    /\ StartVM
    /\ machines = [m \in Machines |-> [spec |-> "small", providerStatus |-> "unset", conditions |-> <<>>]]
    /\ StartNode
    /\ config = ConfigMap(TRUE, TRUE, InfraNamespace)
    /\ StartHelpers

\* Two worker routines run one manager call each, for two distinct machines.
CallConcurrently(a, b, opA, opB) ==
    /\ a # b
    /\ passes' = [called |-> TRUE, a |-> a, b |-> b, opA |-> opA, opB |-> opB,
                  targetsA |-> Targets(a, opA), targetsB |-> Targets(b, opB)]
    /\ UNCHANGED <<vmVars, nodeVars, injection, conditions, now, lastSet, derivation>>

NextPasses ==
    \E a \in TenantMachines, b \in TenantMachines, opA \in ManagerOps, opB \in ManagerOps :
        CallConcurrently(a, b, opA, opB)

SpecPasses == InitPasses /\ [][NextPasses]_vars

----------------------------------------------------------------------------
(* C20 *)

DistinctIdentities(a, b) == <<a.namespace, a.name>> # <<b.namespace, b.name>>

\* C20: for any two machines of the tenant cluster with distinct
\* namespace/name identities, reconciled concurrently, the infra VM key and
\* the boot-config secret key they target are different: no infra object is
\* targeted by both.
C20_NoCrossMachineContention ==
    (passes.called /\ DistinctIdentities(passes.a, passes.b)) =>
        passes.targetsA \cap passes.targetsB = {}

----------------------------------------------------------------------------
(* C21 *)

\* the call of a Create or Update pass that writes the VM
WriteCall(rec) ==
    IF rec.op = "Create" THEN "CreateVirtualMachine" ELSE "UpdateVirtualMachine"

\* the positions of the infra calls of the pass that did not succeed (a read
\* that found no VM included)
FailedCalls(rec) ==
    {i \in DOMAIN rec.calls :
        /\ rec.calls[i].call \in {"CreateSecret", "CreateVirtualMachine",
                                  "GetVirtualMachine", "UpdateVirtualMachine"}
        /\ rec.calls[i].res # "ok"}

\* the positions of the calls status synchronization is made of
SyncCalls(rec) == Issued(rec, "GetVirtualMachineInstance") \cup Issued(rec, "SyncMachine")

\* C21: within one Create or Update pass, the machine's status is
\* synchronized only after the CreateVM / UpdateVM call of that pass has
\* succeeded: no status sync is issued before that call, and none in a pass
\* whose secret creation, VM creation, VM read or VM update failed.
C21_SyncAfterWrite ==
    last.op \in {"Create", "Update"} =>
        /\ \A i \in SyncCalls(last) :
              \E j \in Issued(last, WriteCall(last)) :
                  j < i /\ last.calls[j].res = "ok"
        /\ (FailedCalls(last) # {}) => (SyncCalls(last) = {})

C21_Witness ==
    /\ last.op = "Update"
    /\ ResOf(last, "UpdateVirtualMachine") = "ok"
    /\ ResOf(last, "SyncMachine") = "ok"
    /\ machines[last.m].providerStatus = "vm+vmi"

----------------------------------------------------------------------------
(* C22 *)

\* SyncMachine returned an error after the VM was created or updated
SyncFailed(rec) ==
    /\ rec.op \in {"Create", "Update"}
    /\ ResOf(rec, WriteCall(rec)) = "ok"
    /\ ResOf(rec, "SyncMachine") \notin {"", "ok"}

\* the errors Create and Update return for a failed secret creation, VM
\* creation or VM update
OperationFailures ==
    {Wrapf(prefix, err) :
        prefix \in {"failed to create ignition secret", "failed to create virtual machine",
                    "failed to update VM"},
        err \in {NotFoundErr, AlreadyExistsErr, TransientErr, InvalidMachineErr, SyncErr,
                 [type |-> "Conflict", msg |-> <<"object has been modified">>, requeue |-> 0]}}

\* C22: when status sync fails after CreateVM or UpdateVM succeeded, the
\* created / updated VM is left in place (no delete is issued), and an error
\* is returned that is none of the errors returned for a failed secret
\* creation, VM creation or VM update; Create returns nil only if status
\* sync succeeded.
C22_SyncFailureReported ==
    /\ SyncFailed(last) =>
            /\ vms[VMKeyOf(last.m)] # NoVM
            /\ NumIssued(last, "DeleteVirtualMachine") = 0
            /\ ~last.panic
            /\ last.err # NoErr
            /\ last.err \notin OperationFailures
            /\ last.err.type # "Wrapped"
    /\ (last.op = "Create" /\ Returned(last, NoErr)) =>
            (ResOf(last, "SyncMachine") = "ok")

C22_Witness ==
    /\ SyncFailed(last)
    /\ last.op = "Create"
    /\ last.err = SyncErr
    /\ vms[VMKeyOf(last.m)] # NoVM

----------------------------------------------------------------------------
(* State machine of the desired-VM derivation *)

MaxDerivations == 2     \* derivations made from one machine scope

\* The machines a scope is built for: a machine carries its cluster-ID
\* label and may carry others, the "owned" label of the VMs among them.
DerivedMachines ==
    LET ownedLabels == {{}, {<<"tenantcluster-test-id-asdfg-machine.openshift.io", "owned">>},
                            {<<"tenantcluster-test-id-asdfg-machine.openshift.io", "shared">>}}
        roleLabels == {{}, {<<"machine.openshift.io/cluster-api-machine-role", "worker">>}}
        sourcePvcNames == {"SourceTestPvcName", "rhcos"}
    IN  {[TenantMachine("openshift-machine-api", name, id) EXCEPT
                !.labels = @ \cup owned \cup role, !.sourcePvcName = pvc] :
            name \in MachineNames, id \in Namespaces, owned \in ownedLabels,
            role \in roleLabels, pvc \in sourcePvcNames}

\* A machine scope is built for a machine: it holds the machine and a deep
\* copy of it.
stubMachineScope(machine) ==
    [machine |-> machine, originMachineCopy |-> machine, derived |-> <<>>]

InitDerive ==
    /\ StartVM
    /\ machines = [m \in Machines |-> [spec |-> "small", providerStatus |-> "unset", conditions |-> <<>>]]
    /\ StartNode
    /\ config = ConfigMap(TRUE, TRUE, InfraNamespace)
    /\ injection = NoInjection
    /\ conditions = <<>>
    /\ now = 1
    /\ lastSet = NoSet
    /\ passes = NoPasses
    /\ \E machine \in DerivedMachines : derivation = stubMachineScope(machine)

\* The desired VM is derived from the scope's machine.
CallDerive ==
    /\ Len(derivation.derived) < MaxDerivations
    /\ LET out == stubVirtualMachine(derivation.machine) IN
            derivation' = [derivation EXCEPT !.machine = out.machine,
                                             !.derived = Append(@, out.vm)]
    /\ UNCHANGED <<vmVars, nodeVars, injection, conditions, now, lastSet, passes>>

SpecDerive == InitDerive /\ [][CallDerive]_vars

----------------------------------------------------------------------------
(* C23 *)

\* C23: deriving the desired VM twice from the identical, unchanged machine
\* yields identical results, and the derivation does not change the machine
\* it reads from (in particular its label set), so a second derivation sees
\* the same input as the first.
C23_DeterministicDerivation ==
    /\ (Len(derivation.derived) = MaxDerivations) =>
            (\A i, j \in DOMAIN derivation.derived :
                derivation.derived[i] = derivation.derived[j])
    /\ (Len(derivation.derived) >= 1) =>
            (derivation.machine = derivation.originMachineCopy)

----------------------------------------------------------------------------
(* C24 *)

\* the (first) call of that name in the record
CallOf(rec, call) ==
    rec.calls[CHOOSE i \in Issued(rec, call) : \A j \in Issued(rec, call) : i <= j]

\* C24: whenever Update issues UpdateVM, the submitted VM carries the
\* resourceVersion of the VM observed by the read of the same pass and status
\* fields Created / Ready equal to the observed VM's; if the VM was changed
\* out of band between that read and the write, the write is rejected by the
\* resource-version precondition and Update returns an error with
\* wasUpdated = false.
C24_OptimisticUpdate ==
    (last.op = "Update" /\ NumIssued(last, "UpdateVirtualMachine") > 0) =>
        /\ NumIssued(last, "GetVirtualMachine") = 1
        /\ ResOf(last, "GetVirtualMachine") = "ok"
        /\ CallOf(last, "UpdateVirtualMachine").obj = CallOf(last, "GetVirtualMachine").obj
        /\ last.raced =>
                /\ ResOf(last, "UpdateVirtualMachine") = "Conflict"
                /\ ~last.panic
                /\ last.err = Wrapf("failed to update VM",
                                    [type |-> "Conflict", msg |-> <<"object has been modified">>,
                                     requeue |-> 0])
                /\ ~last.bool
                /\ NumIssued(last, "SyncMachine") = 0

C24_Witness ==
    /\ last.op = "Update"
    /\ last.raced
    /\ ResOf(last, "UpdateVirtualMachine") = "Conflict"
    /\ CallOf(last, "GetVirtualMachine").obj.resourceVersion = 1
    /\ vms[VMKeyOf(last.m)].resourceVersion = 2

----------------------------------------------------------------------------
(* C25 *)

\* C25: within Create, CreateSecret is issued before CreateVM; if
\* CreateSecret fails, CreateVM is never issued; if CreateVM fails after
\* CreateSecret succeeded, the created secret is left in place (Create issues
\* no secret delete) and Create returns an error.
C25_SecretBeforeVM ==
    last.op = "Create" =>
        /\ \A j \in Issued(last, "CreateVirtualMachine") :
              \E i \in Issued(last, "CreateSecret") : i < j /\ last.calls[i].res = "ok"
        /\ (ResOf(last, "CreateSecret") \notin {"", "ok"}) =>
                (NumIssued(last, "CreateVirtualMachine") = 0)
        /\ (ResOf(last, "CreateVirtualMachine") \notin {"", "ok"}) =>
                /\ secrets[SecretKeyOf(last.m)] # NoDoc
                /\ NumIssued(last, "DeleteSecret") = 0
                /\ ~last.panic
                /\ last.err # NoErr

C25_Witness ==
    /\ last.op = "Create"
    /\ ResOf(last, "CreateSecret") = "ok"
    /\ ResOf(last, "CreateVirtualMachine") = "Transient"
    /\ secrets[SecretKeyOf(last.m)] # NoDoc
    /\ vms[VMKeyOf(last.m)] = NoVM

----------------------------------------------------------------------------
(* C26 *)

SecretCallsOf(rec) ==
    {i \in DOMAIN rec.calls :
        rec.calls[i].call \in {"CreateSecret", "UpdateSecret", "DeleteSecret"}}

\* C26: the only secret operation the lifecycle manager ever issues is
\* CreateSecret inside Create: a step changes the secrets only by a Create
\* adding the machine's secret, Update, Delete and Exists issue no secret
\* create, update or delete, and a Delete removes only the machine's VM.
C26_SecretFrame ==
    [][ /\ (secrets' # secrets) =>
                /\ last'.op = "Create"
                /\ ResOf(last', "CreateSecret") = "ok"
                /\ secrets[SecretKeyOf(last'.m)] = NoDoc
                /\ \A k \in SecretKeys \ {SecretKeyOf(last'.m)} : secrets'[k] = secrets[k]
        /\ \A i \in SecretCallsOf(last') :
                last'.op = "Create" /\ last'.calls[i].call = "CreateSecret"
        /\ (last'.op = "Delete" /\ vms' # vms) =>
                /\ \A k \in VMKeys \ {VMKeyOf(last'.m)} : vms'[k] = vms[k]
                /\ secrets' = secrets
                /\ vmis' = vmis
                /\ machines' = machines
      ]_vars

C26_Witness ==
    /\ last.op = "Delete"
    /\ ResOf(last, "DeleteVirtualMachine") = "ok"
    /\ vms[VMKeyOf(last.m)] = NoVM
    /\ secrets[SecretKeyOf(last.m)] # NoDoc

----------------------------------------------------------------------------
(* C27 *)

\* C27: setting a condition whose type is already in the list replaces it in
\* place: after the call the list's condition of that type has status, reason
\* and message equal to the passed condition's, for every combination of
\* them, a call that changes only the status included.
C27_ReplaceInPlace ==
    (lastSet.called /\ HasType(lastSet.before, lastSet.condition.type)) =>
        /\ Len(conditions) = Len(lastSet.before)
        /\ \A i \in DOMAIN conditions : conditions[i].type = lastSet.before[i].type
        /\ OfType(conditions, lastSet.condition.type).status = lastSet.condition.status
        /\ OfType(conditions, lastSet.condition.type).reason = lastSet.condition.reason
        /\ OfType(conditions, lastSet.condition.type).message = lastSet.condition.message

----------------------------------------------------------------------------
(* C28 *)

\* the VM read of an Update or Delete failed with an error other than
\* not-found
VMReadFailed(rec) ==
    /\ rec.op \in {"Update", "Delete"}
    /\ ResOf(rec, "GetVirtualMachine") \notin {"", "ok", "nil", "NotFound"}

\* C28: when the VM read in Update or Delete fails with an error other than
\* not-found, the operation returns that error (Update with wasUpdated =
\* false), the error carries no RequeueAfter delay, and no UpdateVM, DeleteVM
\* or status sync is issued.
C28_ReadErrorReturned ==
    VMReadFailed(last) =>
        /\ Returned(last, TransientErr)
        /\ ResOf(last, "GetVirtualMachine") = last.err.type
        /\ ~last.bool
        /\ last.err.requeue = 0
        /\ last.err.type # "RequeueAfter"
        /\ NumIssued(last, "UpdateVirtualMachine") = 0
        /\ NumIssued(last, "DeleteVirtualMachine") = 0
        /\ SyncCalls(last) = {}
        /\ Len(last.calls) = 1

C28_Witness ==
    /\ prev.op = "Update"
    /\ VMReadFailed(prev)
    /\ prev.err = TransientErr
    /\ last.op = "Delete"
    /\ VMReadFailed(last)
    /\ last.err = TransientErr
    /\ vms[VMKeyOf(last.m)] # NoVM

----------------------------------------------------------------------------
(* C29 *)

\* an Exists call returns
ExistsStep == last'.op = "Exists" /\ <<last', prev'>> # <<last, prev>>

\* C29: Exists is a pure read: it issues only a VM read, no create, update
\* or delete on any infra object, and leaves the machine's spec, status and
\* condition list unchanged.
C29_ExistsPureRead ==
    [][ ExistsStep =>
            /\ Len(last'.calls) = 1
            /\ last'.calls[1].call = "GetVirtualMachine"
            /\ vms' = vms
            /\ vmis' = vmis
            /\ secrets' = secrets
            /\ machines' = machines
      ]_vars

C29_Witness ==
    /\ last.op = "Exists"
    /\ Returned(last, NoErr)
    /\ last.bool
    /\ ResOf(last, "GetVirtualMachine") = "ok"
    /\ vms[VMKeyOf(last.m)] # NoVM
    /\ secrets[SecretKeyOf(last.m)] # NoDoc

----------------------------------------------------------------------------
(* The providerID reconciler under fair scheduling *)

\* Reconcile runs for the node and every call it makes is served.
CallReconcileServed(n) == FinishReconcile(Reconcile(n, DefaultNodeIn))

\* What may happen to one node: the reconciler runs for it, and it, its
\* instances and the shared configuration change.
NextNodeOf(n) ==
    \/ CallReconcile(n)
    \/ CallReconcileV1(n)
    \/ EnvAddNode(n)
    \/ EnvDeleteNode(n)
    \/ \E namespace \in Namespaces : EnvStartInstance(Key(namespace, n))
    \/ \E namespace \in Namespaces : EnvStopInstance(Key(namespace, n))
    \/ \E c \in ConfigMaps : EnvConfigure(c)

\* The controller keeps invoking Reconcile for the node, and a call that
\* stays possible is eventually served without a failing request.
SpecNodeLive ==
    InitNode /\ [][NextNodeOf("m1")]_vars /\ WF_vars(CallReconcileServed("m1"))

----------------------------------------------------------------------------
(* C30 *)

\* the node is registered, the shared configuration names the infra
\* namespace and an instance named like the node runs there
ServedIn(n, namespace) ==
    /\ nodes[n].exists
    /\ config = ConfigMap(TRUE, TRUE, namespace)
    /\ Key(namespace, n) \in instances

AssignedIn(n, namespace) ==
    /\ nodes[n].exists
    /\ nodes[n].providerID = "kubevirt://" \o namespace \o "/" \o n

\* C30: for a node with empty providerID, if from some point on the infra
\* namespace lookup succeeds, an instance named like the node exists, node
\* updates succeed and Reconcile keeps being invoked for the node, then the
\* node eventually has providerID kubevirt://<infra-namespace>/<instance-name>
\* and keeps that value forever after.
C30_EventualAssignment ==
    \A namespace \in Namespaces :
        []((nodes["m1"].providerID = "" /\ []ServedIn("m1", namespace))
                => <>[]AssignedIn("m1", namespace))

C30_Witness ==
    /\ lastReconcile.version = "v2"
    /\ lastReconcile.preID = ""
    /\ UpdatesIssued(lastReconcile) = 1
    /\ lastReconcile.err = NoErr
    /\ ServedIn(lastReconcile.node, InfraNamespace)
    /\ AssignedIn(lastReconcile.node, InfraNamespace)

----------------------------------------------------------------------------
(* C31 *)

\* C31: in every path where Update returns a non-nil error (desired-VM
\* derivation failure, VM read failure, VM missing, UpdateVM failure,
\* status-sync failure) the returned wasUpdated is false, the path where
\* UpdateVM did change the VM but the following status sync failed included.
C31_NoChangeWithError ==
    (last.op = "Update" /\ ~last.panic /\ last.err # NoErr) => ~last.bool

\* UpdateVM changed the VM (its resourceVersion moved) and the status sync
\* that followed failed.
C31_Witness ==
    /\ last.op = "Update"
    /\ ResOf(last, "UpdateVirtualMachine") = "ok"
    /\ ArgOf(last, "UpdateVirtualMachine") # ArgOf(last, "GetVirtualMachine")
    /\ ResOf(last, "SyncMachine") = "SyncFailed"
    /\ last.err = SyncErr
    /\ ~last.bool

----------------------------------------------------------------------------
(* C32 *)

\* an Update call returns
UpdateStep == last'.op = "Update" /\ <<last', prev'>> # <<last, prev>>

----------------------------------------------------------------------------
(* C33 *)

\* the response to the node read of a Reconcile call
NodeRead(r) == r.calls[1].res

\* C33: Reconcile (of either version) for a node that no longer exists (the
\* node read reports not-found) returns no error and no requeue and issues no
\* configuration lookup, instance lookup or node update; any other node read
\* failure is returned as an error, also without any lookup or update.
C33_NodeReadFailure ==
    (lastReconcile.version \in {"v1", "v2"} /\ NodeRead(lastReconcile) # "ok") =>
        /\ lastReconcile.calls[1].call = "GetNode"
        /\ Len(lastReconcile.calls) = 1
        /\ Lookups(lastReconcile) = {}
        /\ InstanceLookups(lastReconcile) = 0
        /\ UpdatesIssued(lastReconcile) = 0
        /\ ~lastReconcile.requeue
        /\ lastReconcile.requeueAfter = 0
        /\ (NodeRead(lastReconcile) = "NotFound") =>
                (lastReconcile.err = NoErr /\ ~nodes[lastReconcile.node].exists)
        /\ (NodeRead(lastReconcile) # "NotFound") =>
                (lastReconcile.err = Wrapf("error getting node", TransientErr))

\* Reconcile has just returned for a node that is not registered, while an
\* instance of its name runs in the configured namespace.
C33_Witness ==
    /\ lastReconcile.version = "v2"
    /\ NodeRead(lastReconcile) = "NotFound"
    /\ lastReconcile.err = NoErr
    /\ ~nodes[lastReconcile.node].exists
    /\ config = ConfigMap(TRUE, TRUE, InfraNamespace)
    /\ Key(InfraNamespace, lastReconcile.node) \in instances

====
